---- MODULE Spec2Model ----
(***************************************************************************)
(* The tournament engine of the Brawl Stars tournament bot (src/main.py):  *)
(* the process-wide maps active_tournaments and match_scores, and the      *)
(* handlers that change them: format selection, wins-needed, join, leave,  *)
(* start-bracket, the match-winner button, the /winner command, the round  *)
(* advance and the finish with its placements.                             *)
(*                                                                         *)
(* One action is one handler run to completion (the handlers are           *)
(* coroutines of a single event loop; their awaits are message sends).     *)
(* Python's None is modelled by NoWinner (an empty team) for a match's     *)
(* winner and by WinsNone (0) for wins_needed.  A dict is a function whose *)
(* DOMAIN is the set of its keys.                                          *)
(***************************************************************************)
EXTENDS Integers, Sequences, FiniteSets, TLC

(***************************************************************************)
(* Bounds of the model.                                                    *)
(***************************************************************************)
NumChats == 1
\* users that press buttons and send commands in the chats
NumUsers == 3
\* the largest "wins_needed_<n>" button pressed
MaxWins == 2
\* cap on a win counter (a counter only runs away while wins_needed is None)
MaxScore == 3
\* the largest roster a bracket is played out from
MaxRoster == 4
\* the largest 1v1 roster a round-1 bracket is built from
MaxBuild == 8
\* the largest participant count the start conditions are evaluated on
MaxCount == 19
\* the largest roster of the brackets played to the end with wins_needed = 1
MaxField == 6
\* chats that run a tournament side by side
NumShared == 2

Chats == 1..NumChats
Users == 1..NumUsers
Formats == {"1v1", "2v2", "3v3"}
\* the "wins_needed_<n>" buttons offered to the creator
WinsButtons == 1..MaxWins
\* the sides the match-winner buttons and /winner name
Sides == {"team1", "team2"}

NoWinner == << >>
WinsNone == 0

VARIABLES
    active_tournaments,  \* chat_id -> tournament dict
    match_scores,        \* match_id -> [team1_wins, team2_wins]
    answer,              \* what the last handler answered
    finished,            \* the tournament the last handler finished, with its placements
    awards,              \* the db.add_tournament_win calls of the last handler
    running              \* the handlers suspended at an await, with their locals

vars == <<active_tournaments, match_scores, answer, finished, awards, running>>

(***************************************************************************)
(* Dicts.                                                                  *)
(***************************************************************************)
EmptyDict == << >>

Put(d, k, v) == [x \in (DOMAIN d) \cup {k} |-> IF x = k THEN v ELSE d[x]]

Del(d, k) == [x \in (DOMAIN d) \ {k} |-> d[x]]

RECURSIVE PutAll(_, _, _)
PutAll(d, ks, v) ==
    IF ks = {} THEN d
    ELSE LET k == CHOOSE x \in ks : TRUE
         IN  PutAll(Put(d, k, v), ks \ {k}, v)

DelAll(d, ks) == [x \in (DOMAIN d) \ ks |-> d[x]]

Range(s) == {s[i] : i \in DOMAIN s}

IsIn(x, s) == \E i \in DOMAIN s : s[i] = x

\* a removal that takes the elements before the first occurrence along
RemoveThrough(s, x) ==
    LET i == CHOOSE j \in DOMAIN s : s[j] = x /\ \A k \in 1..(j - 1) : s[k] # x
    IN  SubSeq(s, i + 1, Len(s))

\* list.remove(x): the first occurrence is removed
Remove(s, x) ==
    LET i == CHOOSE j \in DOMAIN s : s[j] = x /\ \A k \in 1..(j - 1) : s[k] # x
    IN  SubSeq(s, 1, i - 1) \o SubSeq(s, i + 1, Len(s))

RECURSIVE Flatten(_)
Flatten(teams) ==
    IF teams = << >> THEN << >> ELSE Head(teams) \o Flatten(Tail(teams))

RECURSIVE PermsOf(_)
PermsOf(S) ==
    IF S = {} THEN {<< >>}
    ELSE UNION {{<<x>> \o p : p \in PermsOf(S \ {x})} : x \in S}

\* random.shuffle(participants): any arrangement of the same elements
Shuffles(s) ==
    {[i \in DOMAIN s |-> s[p[i]]] : p \in PermsOf(DOMAIN s)}

(***************************************************************************)
(* check_tournament_start_conditions: the boolean of the pair it returns.  *)
(***************************************************************************)
\* config.MIN_TOURNAMENT_PARTICIPANTS, read with the default 2
MinTournamentParticipants(format_type) ==
    CASE format_type = "1v1" -> 2
      [] format_type = "2v2" -> 4
      [] format_type = "3v3" -> 6
      [] OTHER -> 2

\* start conditions without the caps of 12 and 18 participants
check_without_cap(tournament) ==
    LET format_type == tournament.format
        participants_count == Len(tournament.participants)
        min_participants == MinTournamentParticipants(format_type)
    IN  IF participants_count < min_participants THEN FALSE
        ELSE IF format_type = "2v2" THEN
            IF participants_count \div 2 < 2 THEN FALSE
            ELSE IF participants_count % 2 # 0 THEN FALSE
            ELSE TRUE
        ELSE IF format_type = "3v3" THEN
            IF participants_count \div 3 < 2 THEN FALSE
            ELSE IF participants_count % 3 # 0 THEN FALSE
            ELSE TRUE
        ELSE TRUE

check_tournament_start_conditions(tournament) ==
    LET format_type == tournament.format
        participants_count == Len(tournament.participants)
        min_participants == MinTournamentParticipants(format_type)
    IN  IF participants_count < min_participants THEN FALSE
        ELSE IF format_type = "2v2" THEN
            IF participants_count \div 2 < 2 THEN FALSE
            ELSE IF participants_count > 12 THEN FALSE
            ELSE IF participants_count % 2 # 0 THEN FALSE
            ELSE TRUE
        ELSE IF format_type = "3v3" THEN
            IF participants_count \div 3 < 2 THEN FALSE
            ELSE IF participants_count > 18 THEN FALSE
            ELSE IF participants_count % 3 # 0 THEN FALSE
            ELSE TRUE
        ELSE TRUE

(***************************************************************************)
(* The bracket builders.  Indices are Python's (0-based); p[i + 1] is the  *)
(* list element participants[i].                                           *)
(***************************************************************************)
\* a match record whose id counts from 1
NewMatchFromOne(team1, team2, match_id) ==
    [team1 |-> team1, team2 |-> team2, winner |-> NoWinner, match_id |-> match_id + 1]

NewMatch(team1, team2, match_id) ==
    [team1 |-> team1, team2 |-> team2, winner |-> NoWinner, match_id |-> match_id]

RECURSIVE PairLoopOverlap(_, _, _)
\* a pairing that moves on by one team instead of two
PairLoopOverlap(teams, i, matches) ==
    IF i >= Len(teams) THEN matches
    ELSE PairLoopOverlap(teams, i + 1,
                         IF i + 1 < Len(teams)
                         THEN Append(matches, NewMatch(teams[i + 1], teams[i + 2], Len(matches)))
                         ELSE matches)

RECURSIVE PairLoop(_, _, _)
\* for i in range(i, len(teams), 2): if i + 1 < len(teams): matches.append(...)
PairLoop(teams, i, matches) ==
    IF i >= Len(teams) THEN matches
    ELSE PairLoop(teams, i + 2,
                  IF i + 1 < Len(teams)
                  THEN Append(matches, NewMatch(teams[i + 1], teams[i + 2], Len(matches)))
                  ELSE matches)

\* a pairing that gives every participant a match against the next one
create_1v1_each(participants) ==
    [i \in DOMAIN participants |->
        NewMatch(<<participants[i]>>, <<participants[(i % Len(participants)) + 1]>>,
                 i - 1)]

\* a pairing that leaves out the first two participants
create_1v1_late(participants) ==
    PairLoop([i \in DOMAIN participants |-> <<participants[i]>>], 2, << >>)

create_1v1_bracket(participants) ==
    PairLoop([i \in DOMAIN participants |-> <<participants[i]>>], 0, << >>)

\* the team sizes of the two team formats exchanged
TeamSizeSwapped(format_type) == IF format_type = "2v2" THEN 3 ELSE 2

TeamSize(format_type) == IF format_type = "2v2" THEN 2 ELSE 3

\* a slice that hands the members over last first
SliceReversed(participants, i, team_size) ==
    LET last == IF i + team_size < Len(participants) THEN i + team_size
                ELSE Len(participants)
    IN  [k \in 1..(last - i) |-> participants[last + 1 - k]]

\* participants[i:i+team_size]
Slice(participants, i, team_size) ==
    SubSeq(participants, i + 1,
           IF i + team_size < Len(participants) THEN i + team_size ELSE Len(participants))

RECURSIVE TeamLoopKeepAll(_, _, _, _)
\* a team loop that keeps the trailing incomplete slice as a team
TeamLoopKeepAll(participants, team_size, i, teams) ==
    IF i >= Len(participants) THEN teams
    ELSE TeamLoopKeepAll(participants, team_size, i + team_size,
                         Append(teams, Slice(participants, i, team_size)))

RECURSIVE TeamLoop(_, _, _, _)
\* for i in range(i, len(participants), team_size): keep the full slices
TeamLoop(participants, team_size, i, teams) ==
    IF i >= Len(participants) THEN teams
    ELSE LET team == Slice(participants, i, team_size)
         IN  TeamLoop(participants, team_size, i + team_size,
                      IF Len(team) = team_size THEN Append(teams, team) ELSE teams)

create_team_bracket(participants, format_type) ==
    PairLoop(TeamLoop(participants, TeamSize(format_type), 0, << >>), 0, << >>)

BuildMatches(participants, format_type) ==
    IF format_type = "1v1" THEN create_1v1_bracket(participants)
    ELSE create_team_bracket(participants, format_type)

(***************************************************************************)
(* The bracket dict: {} before the start, then round_1.., current_round,   *)
(* winners.  rounds[n] is bracket['round_n'].                              *)
(***************************************************************************)
EmptyBracket == [rounds |-> << >>, current_round |-> 0, winners |-> << >>]

\* bracket.get('current_round', 'round_1')
CurrentRound(bracket) ==
    IF bracket.current_round = 0 THEN 1 ELSE bracket.current_round

\* bracket.get(current_round, [])
CurrentMatches(bracket) ==
    IF CurrentRound(bracket) \in DOMAIN bracket.rounds
    THEN bracket.rounds[CurrentRound(bracket)]
    ELSE << >>

Decided(match) == match.winner # NoWinner

AllFinished(matches) == \A i \in DOMAIN matches : Decided(matches[i])

Loser(match) ==
    IF match.winner = match.team1 THEN match.team2 ELSE match.team1

Members(matches) ==
    UNION {Range(matches[i].team1) \cup Range(matches[i].team2) : i \in DOMAIN matches}

\* the matches whose winner is set, in order
RECURSIVE DecidedOnly(_)
DecidedOnly(matches) ==
    IF matches = << >> THEN << >>
    ELSE IF Decided(Head(matches)) THEN <<Head(matches)>> \o DecidedOnly(Tail(matches))
    ELSE DecidedOnly(Tail(matches))

(***************************************************************************)
(* determine_tournament_winners: the list of {place, team}.                *)
(***************************************************************************)
Placement(place, team) == [place |-> place, team |-> team]

FinalPlaces(final_matches) ==
    LET decided == DecidedOnly(final_matches)
    IN  IF decided = << >> THEN << >>
        ELSE <<Placement(1, decided[1].winner), Placement(2, Loser(decided[1]))>>

\* a third place taken from the last decided match of the round before the final
SemifinalPlaceLast(bracket, max_round) ==
    IF max_round > 1
    THEN LET semifinal_losers == DecidedOnly(bracket.rounds[max_round - 1])
         IN  IF semifinal_losers # << >>
             THEN <<Placement(3, Loser(semifinal_losers[Len(semifinal_losers)]))>>
             ELSE << >>
    ELSE << >>

SemifinalPlace(bracket, max_round) ==
    IF max_round > 1
    THEN LET semifinal_losers == DecidedOnly(bracket.rounds[max_round - 1])
         IN  IF semifinal_losers # << >>
             THEN <<Placement(3, Loser(semifinal_losers[1]))>>
             ELSE << >>
    ELSE << >>

RECURSIVE LastOutside(_, _)
\* the last participant that is not a finalist, as a list of at most one
LastOutside(participants, finalists) ==
    IF participants = << >> THEN << >>
    ELSE IF participants[Len(participants)] \notin finalists
    THEN <<participants[Len(participants)]>>
    ELSE LastOutside(SubSeq(participants, 1, Len(participants) - 1), finalists)

RECURSIVE FirstOutside(_, _)
\* the first participant that is not a finalist, as a list of at most one
FirstOutside(participants, finalists) ==
    IF participants = << >> THEN << >>
    ELSE IF Head(participants) \notin finalists THEN <<Head(participants)>>
    ELSE FirstOutside(Tail(participants), finalists)

FallbackPlace(tournament, final_matches, n_placed, max_round) ==
    IF n_placed < 3 /\ max_round = 1 /\ tournament.format = "1v1"
    THEN LET out == FirstOutside(tournament.participants, Members(final_matches))
         IN  IF out = << >> THEN << >> ELSE <<Placement(3, out)>>
    ELSE << >>

determine_tournament_winners(tournament) ==
    LET bracket == tournament.bracket
        max_round == Len(bracket.rounds)
    IN  IF max_round = 0 THEN << >>
        ELSE LET final_matches == bracket.rounds[max_round]
                 top == FinalPlaces(final_matches) \o SemifinalPlace(bracket, max_round)
             IN  top \o FallbackPlace(tournament, final_matches, Len(top), max_round)

\* config.XP_REWARDS, read with the default 0
XpRewards(place) ==
    CASE place = 1 -> 100
      [] place = 2 -> 75
      [] place = 3 -> 50
      [] OTHER -> 0

\* a reward that counts a tournament win for every place
add_win_always(user_id, place) ==
    [user_id |-> user_id, place |-> place, xp |-> XpRewards(place), wins |-> 1]

\* DatabaseManager.add_tournament_win: what the call adds to the user's row
add_tournament_win(user_id, place) ==
    [user_id |-> user_id, place |-> place, xp |-> XpRewards(place),
     wins |-> IF place = 1 THEN 1 ELSE 0]

\* the add_tournament_win(user_id, place) calls of finish_tournament, in order;
\* the place is the position in winners_data[:3]
RECURSIVE AwardCalls(_, _)
AwardCalls(winners_data, i) ==
    IF i > Len(winners_data) \/ i > 3 THEN << >>
    ELSE [k \in DOMAIN winners_data[i].team |->
             add_tournament_win(winners_data[i].team[k], i)]
         \o AwardCalls(winners_data, i + 1)


(***************************************************************************)
(* Users of the bot: the role column of the users table and config.OWNER_ID*)
(***************************************************************************)
OwnerId == 1

Role(user_id) ==
    IF user_id = 1 THEN "owner" ELSE IF user_id = 2 THEN "moderator" ELSE "user"

\* not user or role not in [...] and user_id != OWNER_ID
NoRights(user_id) ==
    Role(user_id) \notin {"moderator", "admin", "owner"} /\ user_id # OwnerId

\* the users start_tournament_setup shows the format buttons to (admin and above)
Organizers == {u \in Users : Role(u) \in {"admin", "owner"}}

(***************************************************************************)
(* What a handler leaves behind: the two maps, its answer, and (for a      *)
(* finish) the tournament it finished and the rewards it handed out.       *)
(***************************************************************************)
NoFinish == << >>

Outcome(at, ms, ans) ==
    [at |-> at, ms |-> ms, answer |-> ans, finished |-> NoFinish, awards |-> << >>]

Rejected(ans) == Outcome(active_tournaments, match_scores, ans)

Apply(o) ==
    /\ active_tournaments' = o.at
    /\ match_scores' = o.ms
    /\ answer' = o.answer
    /\ finished' = o.finished
    /\ awards' = o.awards
    /\ UNCHANGED running

NewTournament(creator, format_type) ==
    [creator |-> creator, format |-> format_type, wins_needed |-> WinsNone,
     participants |-> << >>, bracket |-> EmptyBracket]

ZeroScore == [team1_wins |-> 0, team2_wins |-> 0]

MatchIds(matches) == {matches[i].match_id : i \in DOMAIN matches}

AllMatchIds(bracket) == UNION {MatchIds(bracket.rounds[r]) : r \in DOMAIN bracket.rounds}

(***************************************************************************)
(* Configuration and roster handlers.                                      *)
(***************************************************************************)
select_tournament_format(chat_id, user_id, format_type) ==
    IF chat_id \in DOMAIN active_tournaments
       /\ user_id # active_tournaments[chat_id].creator
    THEN Rejected("only_creator_configures")
    ELSE Outcome(Put(active_tournaments, chat_id, NewTournament(user_id, format_type)),
                 match_scores, "format_selected")

set_wins_needed(chat_id, user_id, wins) ==
    IF chat_id \notin DOMAIN active_tournaments
       \/ user_id # active_tournaments[chat_id].creator
    THEN Rejected("only_creator_configures")
    ELSE Outcome([active_tournaments EXCEPT ![chat_id].wins_needed = wins],
                 match_scores, "wins_needed_set")

\* a join that appends without looking at the list
join_unchecked(chat_id, user_id) ==
    IF chat_id \notin DOMAIN active_tournaments THEN Rejected("no_active_tournament")
    ELSE Outcome([active_tournaments EXCEPT ![chat_id].participants = Append(@, user_id)],
                 match_scores, "joined")

join_tournament(chat_id, user_id) ==
    IF chat_id \notin DOMAIN active_tournaments THEN Rejected("no_active_tournament")
    ELSE IF IsIn(user_id, active_tournaments[chat_id].participants)
    THEN Rejected("already_joined")
    ELSE Outcome([active_tournaments EXCEPT ![chat_id].participants = Append(@, user_id)],
                 match_scores, "joined")

leave_tournament(chat_id, user_id) ==
    IF chat_id \notin DOMAIN active_tournaments THEN Rejected("no_active_tournament")
    ELSE IF ~IsIn(user_id, active_tournaments[chat_id].participants)
    THEN Rejected("not_participating")
    ELSE Outcome([active_tournaments EXCEPT ![chat_id].participants = Remove(@, user_id)],
                 match_scores, "left")

\* update_tournament_message: the start button is offered to the creator when the
\* start conditions hold
update_tournament_message(chat_id, user_id) ==
    IF chat_id \notin DOMAIN active_tournaments THEN Rejected("KeyError")
    ELSE IF check_tournament_start_conditions(active_tournaments[chat_id])
    THEN IF user_id = active_tournaments[chat_id].creator
         THEN Rejected("ready_start_offered")
         ELSE Rejected("ready")
    ELSE Rejected("not_ready")

(***************************************************************************)
(* finish_tournament / finish_tournament_by_command.                       *)
(***************************************************************************)
\* a finish that hands out the rewards and leaves the tournament active
finish_keeping(at, ms, chat_id, ans) ==
    LET tournament == at[chat_id]
        winners_data == determine_tournament_winners(tournament)
    IN  [at |-> at,
         ms |-> DelAll(ms, AllMatchIds(tournament.bracket)),
         answer |-> ans,
         finished |-> [chat_id |-> chat_id, tournament |-> tournament,
                       winners_data |-> winners_data],
         awards |-> AwardCalls(winners_data, 1)]

finish_tournament(at, ms, chat_id, ans) ==
    LET tournament == at[chat_id]
        winners_data == determine_tournament_winners(tournament)
    IN  [at |-> Del(at, chat_id),
         ms |-> DelAll(ms, AllMatchIds(tournament.bracket)),
         answer |-> ans,
         finished |-> [chat_id |-> chat_id, tournament |-> tournament,
                       winners_data |-> winners_data],
         awards |-> AwardCalls(winners_data, 1)]

\* a finish by command that leaves the score entries of the bracket behind
finish_by_command_keeping_scores(at, ms, chat_id, ans) ==
    LET tournament == at[chat_id]
        winners_data == determine_tournament_winners(tournament)
    IN  [at |-> Del(at, chat_id),
         ms |-> ms,
         answer |-> ans,
         finished |-> [chat_id |-> chat_id, tournament |-> tournament,
                       winners_data |-> winners_data],
         awards |-> AwardCalls(winners_data, 1)]

finish_tournament_by_command(at, ms, chat_id, ans) ==
    LET tournament == at[chat_id]
        winners_data == determine_tournament_winners(tournament)
    IN  [at |-> Del(at, chat_id),
         ms |-> DelAll(ms, AllMatchIds(tournament.bracket)),
         answer |-> ans,
         finished |-> [chat_id |-> chat_id, tournament |-> tournament,
                       winners_data |-> winners_data],
         awards |-> AwardCalls(winners_data, 1)]

\* show_current_round: a round without matches finishes the tournament
show_current_round(at, ms, chat_id, ans) ==
    IF CurrentMatches(at[chat_id].bracket) = << >>
    THEN finish_tournament(at, ms, chat_id, ans)
    ELSE Outcome(at, ms, ans)

(***************************************************************************)
(* start_tournament_bracket and create_tournament_bracket.                 *)
(***************************************************************************)
create_tournament_bracket(chat_id, shuffled) ==
    LET tournament == active_tournaments[chat_id]
        matches == BuildMatches(shuffled, tournament.format)
        bracket == [rounds |-> <<matches>>, current_round |-> 1, winners |-> << >>]
    IN  show_current_round(
            [active_tournaments EXCEPT ![chat_id].bracket = bracket],
            PutAll(match_scores, MatchIds(matches), ZeroScore),
            chat_id, "round_shown")

\* the checks of a start that looks at the start conditions only
StartRejectionForAnyone(chat_id, user_id) ==
    IF chat_id \notin DOMAIN active_tournaments THEN "only_creator_starts"
    ELSE IF ~check_tournament_start_conditions(active_tournaments[chat_id])
    THEN "cannot_start"
    ELSE ""

StartRejection(chat_id, user_id) ==
    IF chat_id \notin DOMAIN active_tournaments
       \/ user_id # active_tournaments[chat_id].creator
    THEN "only_creator_starts"
    ELSE IF ~check_tournament_start_conditions(active_tournaments[chat_id])
    THEN "cannot_start"
    ELSE ""


(***************************************************************************)
(* set_match_winner: the "match_winner_<id>_<side>" button.                *)
(***************************************************************************)
\* a lookup that falls back to the first match of the round
FindMatchOrFirst(matches, match_id) ==
    IF \E i \in DOMAIN matches : matches[i].match_id = match_id
    THEN CHOOSE i \in DOMAIN matches :
            /\ matches[i].match_id = match_id
            /\ \A j \in 1..(i - 1) : matches[j].match_id # match_id
    ELSE IF matches = << >> THEN 0 ELSE 1

\* the position of the first match of the round with this match_id, 0 if none
FindMatch(matches, match_id) ==
    IF \E i \in DOMAIN matches : matches[i].match_id = match_id
    THEN CHOOSE i \in DOMAIN matches :
            /\ matches[i].match_id = match_id
            /\ \A j \in 1..(i - 1) : matches[j].match_id # match_id
    ELSE 0

\* a lookup that rejects only the match that is not found
NotFound(matches, n) == n = 0

\* not match or match.get('winner') is not None
NotOpen(matches, n) == n = 0 \/ Decided(matches[n])

\* a score update that counts the win for both sides
AddWinBoth(ms, match_id, team1_won) ==
    LET score == IF match_id \in DOMAIN ms THEN ms[match_id] ELSE ZeroScore
    IN  Put(ms, match_id, [team1_wins |-> score.team1_wins + 1,
                           team2_wins |-> score.team2_wins + 1])

\* match_scores[match_id][side] += 1, after the entry is created if missing
AddWin(ms, match_id, team1_won) ==
    LET score == IF match_id \in DOMAIN ms THEN ms[match_id] ELSE ZeroScore
    IN  Put(ms, match_id,
            IF team1_won THEN [score EXCEPT !.team1_wins = @ + 1]
            ELSE [score EXCEPT !.team2_wins = @ + 1])

\* the winner the score gives a match: team1 is looked at first
WinnerByScore(match, score, wins_needed) ==
    IF score.team1_wins >= wins_needed THEN match.team1
    ELSE IF score.team2_wins >= wins_needed THEN match.team2
    ELSE match.winner

\* the winners of the decided matches, last match first
WinnersLastFirst(matches) ==
    LET decided == DecidedOnly(matches)
    IN  [i \in DOMAIN decided |-> decided[Len(decided) + 1 - i].winner]

\* [match.get('winner', []) for match in matches if match.get('winner')]
WinnersOf(matches) ==
    LET decided == DecidedOnly(matches)
    IN  [i \in DOMAIN decided |-> decided[i].winner]

WithMatches(at, chat_id, round, matches) ==
    [at EXCEPT ![chat_id].bracket.rounds = Put(@, round, matches)]

\* an advance that builds the next round whatever the number of winners
AdvanceToNextRound(at, ms, chat_id, current_round, matches) ==
    LET next_round == current_round + 1
        next_matches == BuildMatches(Flatten(WinnersOf(matches)), at[chat_id].format)
    IN  show_current_round(
            [at EXCEPT ![chat_id].bracket.rounds = Put(@, next_round, next_matches),
                       ![chat_id].bracket.current_round = next_round],
            PutAll(ms, MatchIds(next_matches), ZeroScore),
            chat_id, "winner_set")

\* a round check that leaves the decided round as it is
AdvanceNever(at, ms, chat_id, current_round, matches) ==
    Outcome(at, ms, "winner_set")

\* the round advance of set_match_winner, once every match has a winner
AdvanceByButton(at, ms, chat_id, current_round, matches) ==
    LET winners == WinnersOf(matches)
        winners_flat == Flatten(winners)
    IN  IF Len(winners) = 1
        THEN finish_tournament(
                 [at EXCEPT ![chat_id].bracket.winners = winners_flat],
                 ms, chat_id, "winner_set")
        ELSE LET next_round == current_round + 1
                 next_matches == BuildMatches(winners_flat, at[chat_id].format)
             IN  show_current_round(
                     [at EXCEPT ![chat_id].bracket.rounds = Put(@, next_round, next_matches),
                                ![chat_id].bracket.current_round = next_round],
                     PutAll(ms, MatchIds(next_matches), ZeroScore),
                     chat_id, "winner_set")

set_match_winner(chat_id, match_id, winning_team) ==
    LET active == chat_id \in DOMAIN active_tournaments
        bracket == IF active THEN active_tournaments[chat_id].bracket ELSE EmptyBracket
        current_round == CurrentRound(bracket)
        matches == CurrentMatches(bracket)
        wins_needed == IF active THEN active_tournaments[chat_id].wins_needed ELSE 1
        n == FindMatch(matches, match_id)
    IN  IF NotOpen(matches, n) THEN Rejected("match_finished_or_not_found")
        ELSE
        LET ms == AddWin(match_scores, match_id, winning_team = "team1")
        IN  IF wins_needed = WinsNone
            \* int >= None raises TypeError: the handler ends here
            THEN Outcome(active_tournaments, ms, "TypeError")
            ELSE
            LET winner == WinnerByScore(matches[n], ms[match_id], wins_needed)
                decided == [matches EXCEPT ![n].winner = winner]
                at == WithMatches(active_tournaments, chat_id, current_round, decided)
            IN  IF AllFinished(decided)
                THEN AdvanceByButton(at, ms, chat_id, current_round, decided)
                ELSE show_current_round(at, ms, chat_id, "winner_set")

(***************************************************************************)
(* winner_command: /winner <match number> <team number>, with              *)
(* create_next_round.                                                      *)
(***************************************************************************)
\* a next round that keeps the score entries it finds under its match ids
create_next_round_keeping(at, ms, chat_id, winners_flat, ans) ==
    LET bracket == at[chat_id].bracket
        next_round == CurrentRound(bracket) + 1
        next_matches == BuildMatches(winners_flat, at[chat_id].format)
    IN  Outcome([at EXCEPT ![chat_id].bracket.rounds = Put(@, next_round, next_matches),
                           ![chat_id].bracket.current_round = next_round],
                ms, ans)

create_next_round(at, ms, chat_id, winners_flat, ans) ==
    LET bracket == at[chat_id].bracket
        next_round == CurrentRound(bracket) + 1
        next_matches == BuildMatches(winners_flat, at[chat_id].format)
    IN  Outcome([at EXCEPT ![chat_id].bracket.rounds = Put(@, next_round, next_matches),
                           ![chat_id].bracket.current_round = next_round],
                PutAll(ms, MatchIds(next_matches), ZeroScore), ans)

\* match.get('winner') is not None
AlreadyDecided(match) == Decided(match)

winner_command(chat_id, user_id, match_arg, team_number) ==
    IF NoRights(user_id) THEN Rejected("no_rights")
    ELSE IF chat_id \notin DOMAIN active_tournaments THEN Rejected("no_active_tournament")
    ELSE
    LET tournament == active_tournaments[chat_id]
        bracket == tournament.bracket
        current_round == CurrentRound(bracket)
        match_number == match_arg - 1
        matches == CurrentMatches(bracket)
    IN  IF team_number \notin {1, 2} THEN Rejected("bad_team_number")
        ELSE IF match_number < 0 \/ match_number >= Len(matches)
        THEN Rejected("bad_match_number")
        ELSE IF AlreadyDecided(matches[match_number + 1]) THEN Rejected("already_decided")
        ELSE
        LET match == matches[match_number + 1]
            match_id == match.match_id
            wins_needed == tournament.wins_needed
            ms == AddWin(match_scores, match_id, team_number = 1)
        IN  IF wins_needed = WinsNone
            \* the TypeError is caught by the handler's except Exception
            THEN Outcome(active_tournaments, ms, "command_error")
            ELSE
            LET winner == WinnerByScore(match, ms[match_id], wins_needed)
                decided == [matches EXCEPT ![match_number + 1].winner = winner]
                at == WithMatches(active_tournaments, chat_id, current_round, decided)
                winners == WinnersOf(decided)
            IN  IF AllFinished(decided)
                THEN IF Len(winners) = 1
                     THEN finish_tournament_by_command(
                              [at EXCEPT ![chat_id].bracket.winners = Flatten(winners)],
                              ms, chat_id, "winner_recorded")
                     ELSE create_next_round(at, ms, chat_id, Flatten(winners),
                                            "winner_recorded")
                ELSE Outcome(at, ms, "winner_recorded")

(***************************************************************************)
(* The events the messaging layer delivers.                                *)
(***************************************************************************)
\* match ids and /winner match numbers, one past the largest a bracket holds
MatchIdInputs == 0..(NumUsers \div 2)

MatchArgInputs == 1..((NumUsers \div 2) + 1)

\* the ids and numbers of the matches a roster of MaxRoster can hold
PlayIds == 0..((MaxRoster \div 2) - 1)

PlayArgs == 1..(MaxRoster \div 2)

WithinCap(o) ==
    \A k \in DOMAIN o.ms :
        o.ms[k].team1_wins <= MaxScore /\ o.ms[k].team2_wins <= MaxScore

SelectFormat(c, u, f) == Apply(select_tournament_format(c, u, f))

SetWinsNeeded(c, u, w) == Apply(set_wins_needed(c, u, w))

Join(c, u) == Apply(join_tournament(c, u))

Leave(c, u) == Apply(leave_tournament(c, u))

StartRefused(c, u) ==
    /\ StartRejection(c, u) # ""
    /\ Apply(Rejected(StartRejection(c, u)))

StartBracket(c, u) ==
    /\ StartRejection(c, u) = ""
    /\ \E shuffled \in Shuffles(active_tournaments[c].participants) :
           Apply(create_tournament_bracket(c, shuffled))

MatchWinnerButton(c, id, side) ==
    /\ WithinCap(set_match_winner(c, id, side))
    /\ Apply(set_match_winner(c, id, side))

WinnerCommand(c, u, m, t) ==
    /\ WithinCap(winner_command(c, u, m, t))
    /\ Apply(winner_command(c, u, m, t))

Init ==
    /\ active_tournaments = EmptyDict
    /\ match_scores = EmptyDict
    /\ answer = ""
    /\ finished = NoFinish
    /\ awards = << >>
    /\ running = << >>

Next ==
    \E c \in Chats :
        \/ \E u \in Organizers, f \in Formats : SelectFormat(c, u, f)
        \/ \E u \in Users, w \in WinsButtons : SetWinsNeeded(c, u, w)
        \/ \E u \in Users : Join(c, u)
        \/ \E u \in Users : Leave(c, u)
        \/ \E u \in Users : StartRefused(c, u)
        \/ \E u \in Users : StartBracket(c, u)
        \/ \E id \in MatchIdInputs, side \in Sides : MatchWinnerButton(c, id, side)
        \/ \E u \in Users, m \in MatchArgInputs, t \in {1, 2} : WinnerCommand(c, u, m, t)

\* every event, on up to NumUsers users
Spec == Init /\ [][Next]_vars

(***************************************************************************)
(* Brackets played out: registration is over with the users 1..n joined in *)
(* that order, and the bracket is started, restarted and played.           *)
(***************************************************************************)
Roster(n) == [i \in 1..n |-> i]

Registered(format_type, wins_needed, n) ==
    [NewTournament(OwnerId, format_type) EXCEPT
        !.wins_needed = wins_needed, !.participants = Roster(n)]

InitRegistered(counts, wins) ==
    /\ \E f \in Formats, w \in wins, n \in counts :
           active_tournaments = Put(EmptyDict, 1, Registered(f, w, n))
    /\ match_scores = EmptyDict
    /\ answer = ""
    /\ finished = NoFinish
    /\ awards = << >>
    /\ running = << >>

InitPlay == InitRegistered(2..MaxRoster, WinsButtons)

NotStarted(c) ==
    c \in DOMAIN active_tournaments /\ active_tournaments[c].bracket = EmptyBracket

\* the creator configures and starts, a moderator sends /winner
NextPlay ==
    \E c \in Chats :
        \/ \E w \in WinsButtons : SetWinsNeeded(c, OwnerId, w)
        \/ StartRefused(c, OwnerId)
        \/ NotStarted(c) /\ StartBracket(c, OwnerId)
        \/ \E id \in PlayIds, side \in Sides : MatchWinnerButton(c, id, side)
        \/ \E m \in PlayArgs, t \in {1, 2} : WinnerCommand(c, 2, m, t)

SpecPlay == InitPlay /\ [][NextPlay]_vars

\* the same, and the creator presses the start button of the setup message again
\* once the bracket is built
StartAgain(c, u) == ~NotStarted(c) /\ StartBracket(c, u)

NextReplay == NextPlay \/ \E c \in Chats : StartAgain(c, OwnerId)

SpecReplay == InitPlay /\ [][NextReplay]_vars

(***************************************************************************)
(* The round-1 bracket of a 1v1 roster of up to MaxBuild players.          *)
(***************************************************************************)
InitBuild ==
    /\ \E n \in 2..MaxBuild :
           active_tournaments = Put(EmptyDict, 1, Registered("1v1", 1, n))
    /\ match_scores = EmptyDict
    /\ answer = ""
    /\ finished = NoFinish
    /\ awards = << >>
    /\ running = << >>

NextBuild == \E c \in Chats : NotStarted(c) /\ StartBracket(c, OwnerId)

SpecBuild == InitBuild /\ [][NextBuild]_vars

(***************************************************************************)
(* The start conditions on every format and participant count.             *)
(***************************************************************************)
InitCount == InitRegistered(0..MaxCount, {WinsNone} \cup WinsButtons)

RefreshMessage(c, u) == Apply(update_tournament_message(c, u))

NextCount == \E c \in Chats, u \in Users : RefreshMessage(c, u)

SpecCount == InitCount /\ [][NextCount]_vars

(***************************************************************************)
(* Brackets of every format played to the end, one win deciding a match:   *)
(* rosters of up to MaxField players, so that a round of three matches and *)
(* teams of three occur.                                                   *)
(***************************************************************************)
FieldIds == 0..((MaxField \div 2) - 1)

FieldArgs == 1..(MaxField \div 2)

InitRounds == InitRegistered(2..MaxField, {1})

NextRounds ==
    \E c \in Chats :
        \/ StartRefused(c, OwnerId)
        \/ NotStarted(c) /\ StartBracket(c, OwnerId)
        \/ \E id \in FieldIds, side \in Sides : MatchWinnerButton(c, id, side)
        \/ \E m \in FieldArgs, t \in {1, 2} : WinnerCommand(c, 2, m, t)

SpecRounds == InitRounds /\ [][NextRounds]_vars

(***************************************************************************)
(* Tournaments of several chats side by side: each chat has a 1v1          *)
(* tournament of two players, and match_scores is the one map of the       *)
(* process.                                                                *)
(***************************************************************************)
SharedChats == 1..NumShared

InitShared ==
    /\ active_tournaments \in
           [SharedChats -> {Registered("1v1", w, 2) : w \in WinsButtons}]
    /\ match_scores = EmptyDict
    /\ answer = ""
    /\ finished = NoFinish
    /\ awards = << >>
    /\ running = << >>

NextShared ==
    \E c \in SharedChats :
        \/ NotStarted(c) /\ StartBracket(c, OwnerId)
        \/ \E side \in Sides : MatchWinnerButton(c, 0, side)
        \/ \E t \in {1, 2} : WinnerCommand(c, 2, 1, t)

SpecShared == InitShared /\ [][NextShared]_vars

(***************************************************************************)
(* Properties.  A recordWin event is the match-winner button or a /winner  *)
(* command of a user with rights, addressed to the match at position n of  *)
(* the active round of chat c.                                             *)
(***************************************************************************)
ScoreOf(ms, id) == IF id \in DOMAIN ms THEN ms[id] ELSE ZeroScore

SideCount(score, side) ==
    IF side = "team1" THEN score.team1_wins ELSE score.team2_wins

TeamOf(match, side) == IF side = "team1" THEN match.team1 ELSE match.team2

TeamNumber(side) == IF side = "team1" THEN 1 ELSE 2

ActiveMatches(c) == CurrentMatches(active_tournaments[c].bracket)

RecordWin(c, n, side) ==
    \/ MatchWinnerButton(c, ActiveMatches(c)[n].match_id, side)
    \/ \E u \in Users : ~NoRights(u) /\ WinnerCommand(c, u, n, TeamNumber(side))

\* the tournament of chat c after the step: the chat's, or the one just finished
TournamentAfter(c) ==
    IF c \in DOMAIN active_tournaments' THEN active_tournaments'[c]
    ELSE finished'.tournament

MatchAfter(c, r, n) == TournamentAfter(c).bracket.rounds[r][n]

\* C1: with wins_needed >= 1, a recordWin event for a side on an open match
\* sets the match's winner exactly when it brings that side's counter to
\* wins_needed, the winner is then that side's team, and before that the
\* winner stays unset.
C1_BestOfN ==
    [][\A c \in DOMAIN active_tournaments :
         \A n \in DOMAIN ActiveMatches(c), side \in Sides :
           LET tournament == active_tournaments[c]
               match == ActiveMatches(c)[n]
               count == SideCount(ScoreOf(match_scores, match.match_id), side)
           IN  (/\ tournament.wins_needed >= 1
                /\ ~Decided(match)
                /\ RecordWin(c, n, side))
               => MatchAfter(c, CurrentRound(tournament.bracket), n).winner
                     = IF count + 1 = tournament.wins_needed
                       THEN TeamOf(match, side) ELSE NoWinner]_vars

RecordWinByAnyone(c, n, side) ==
    \/ MatchWinnerButton(c, ActiveMatches(c)[n].match_id, side)
    \/ \E u \in Users : WinnerCommand(c, u, n, TeamNumber(side))

DecidedInActiveRound ==
    \E c \in DOMAIN active_tournaments :
        \E n \in DOMAIN ActiveMatches(c) : Decided(ActiveMatches(c)[n])

\* C2: a recordWin event (button or /winner) addressed to a match of the
\* active round whose winner is set is rejected and changes neither the
\* tournaments nor the scores, however often it is repeated.
C2_DecidedMatchRejects ==
    [][\A c \in DOMAIN active_tournaments :
         \A n \in DOMAIN ActiveMatches(c), side \in Sides :
           (Decided(ActiveMatches(c)[n]) /\ RecordWinByAnyone(c, n, side))
           => /\ UNCHANGED <<active_tournaments, match_scores>>
              /\ finished' = NoFinish
              /\ answer' \in {"match_finished_or_not_found", "already_decided",
                              "no_rights"}]_vars

\* a /winner command has just been rejected on a decided match of the active round
C2_RejectedOnDecided == answer = "already_decided" /\ DecidedInActiveRound

\* the step leaves chat c in round r, with no round added
StaysInRound(c, r) ==
    /\ c \in DOMAIN active_tournaments'
    /\ active_tournaments'[c].bracket.current_round = r
    /\ DOMAIN active_tournaments'[c].bracket.rounds
           = DOMAIN active_tournaments[c].bracket.rounds

\* the step moves chat c to round r + 1, which is one open match of first against second
AdvancesWith(c, r, first, second) ==
    /\ c \in DOMAIN active_tournaments'
    /\ LET bracket == active_tournaments'[c].bracket
       IN  /\ bracket.current_round = r + 1
           /\ DOMAIN bracket.rounds = 1..(r + 1)
           /\ Len(bracket.rounds[r + 1]) = 1
           /\ bracket.rounds[r + 1][1].team1 = first
           /\ bracket.rounds[r + 1][1].team2 = second
           /\ bracket.rounds[r + 1][1].winner = NoWinner

\* C3 as stated: in an active round of two matches, a recordWin event that
\* leaves one of them open keeps the tournament in the round with no round
\* added; the event that decides the second one advances to a new round of
\* exactly one match, built from the two winners in the order in which they
\* were decided (the winner decided earlier is team1).
C3_DecidedOrder ==
    [][\A c \in DOMAIN active_tournaments :
         \A n \in DOMAIN ActiveMatches(c), side \in Sides :
           LET r == CurrentRound(active_tournaments[c].bracket)
               other == ActiveMatches(c)[3 - n]
           IN  (/\ Len(ActiveMatches(c)) = 2
                /\ ~Decided(ActiveMatches(c)[n])
                /\ RecordWin(c, n, side))
               => IF Decided(MatchAfter(c, r, n)) /\ Decided(other)
                  THEN AdvancesWith(c, r, other.winner, MatchAfter(c, r, n).winner)
                  ELSE StaysInRound(c, r)]_vars

\* C3, amended: as above, but the new round's match is built from the two
\* winners in the order of their matches in the round (team1 is the winner
\* of the match at index 0, team2 the winner of the match at index 1),
\* whichever of the two was decided first.
C3_MatchOrder ==
    [][\A c \in DOMAIN active_tournaments :
         \A n \in DOMAIN ActiveMatches(c), side \in Sides :
           LET r == CurrentRound(active_tournaments[c].bracket)
           IN  (/\ Len(ActiveMatches(c)) = 2
                /\ ~Decided(ActiveMatches(c)[n])
                /\ RecordWin(c, n, side))
               => IF Decided(MatchAfter(c, r, n)) /\ Decided(ActiveMatches(c)[3 - n])
                  THEN AdvancesWith(c, r, MatchAfter(c, r, 1).winner,
                                          MatchAfter(c, r, 2).winner)
                  ELSE StaysInRound(c, r)]_vars

\* a recordWin event has just closed a round of two matches and opened the next
C3_SecondRoundOpened ==
    /\ answer \in {"winner_set", "winner_recorded"}
    /\ \E c \in DOMAIN active_tournaments :
          LET bracket == active_tournaments[c].bracket
          IN  /\ bracket.current_round = 2
              /\ Len(bracket.rounds[1]) = 2
              /\ AllFinished(bracket.rounds[1])
              /\ Len(bracket.rounds[2]) = 1
              /\ ~Decided(bracket.rounds[2][1])

\* C4: a recordWin event that leaves the active round fully decided with a
\* winner list of length 1 finishes the tournament: the chat has no active
\* tournament any more, the bracket's winners field is the members of the
\* sole winning team, and the bracket has no round beyond the one decided.
C4_SoleWinnerFinishes ==
    [][\A c \in DOMAIN active_tournaments :
         \A n \in DOMAIN ActiveMatches(c), side \in Sides :
           LET bracket == active_tournaments[c].bracket
               r == CurrentRound(bracket)
               round_after == TournamentAfter(c).bracket.rounds[r]
           IN  (/\ ~Decided(ActiveMatches(c)[n])
                /\ RecordWin(c, n, side)
                /\ AllFinished(round_after)
                /\ Len(WinnersOf(round_after)) = 1)
               => /\ c \notin DOMAIN active_tournaments'
                  /\ finished' # NoFinish
                  /\ finished'.chat_id = c
                  /\ finished'.tournament.bracket.winners = round_after[1].winner
                  /\ finished'.tournament.bracket.current_round = r
                  /\ DOMAIN finished'.tournament.bracket.rounds = DOMAIN bracket.rounds]_vars

\* a tournament has just finished on the decision of a final that followed a
\* round of two matches
C4_FinalDecided ==
    /\ finished # NoFinish
    /\ Len(finished.tournament.bracket.rounds) = 2
    /\ Len(finished.tournament.bracket.rounds[2]) = 1
    /\ finished.tournament.bracket.winners = finished.tournament.bracket.rounds[2][1].winner
    /\ finished.tournament.bracket.winners # NoWinner

\* C5: a finished tournament whose bracket has more than one round has
\* exactly three placements: 1st the winner of the final, 2nd the other side
\* of the final, 3rd the losing side of the match at index 0 of the round
\* before the final, however many matches that round has.
C5_ThreePlacements ==
    (finished # NoFinish /\ Len(finished.tournament.bracket.rounds) > 1)
    => LET rounds == finished.tournament.bracket.rounds
           final == rounds[Len(rounds)][1]
           first_semifinal == rounds[Len(rounds) - 1][1]
       IN  finished.winners_data =
               << [place |-> 1, team |-> final.winner],
                  [place |-> 2,
                   team |-> IF final.winner = final.team1 THEN final.team2 ELSE final.team1],
                  [place |-> 3,
                   team |-> IF first_semifinal.winner = first_semifinal.team1
                            THEN first_semifinal.team2 ELSE first_semifinal.team1] >>

\* a tournament has finished whose round before the final had three matches
C5_FinishedAfterThreeMatches ==
    /\ finished # NoFinish
    /\ Len(finished.tournament.bracket.rounds) = 2
    /\ Len(finished.tournament.bracket.rounds[1]) = 3
    /\ Len(finished.winners_data) = 3

Distinct(s) == \A i, j \in DOMAIN s : i # j => s[i] # s[j]

\* C6: whatever join and leave events arrive, in whatever phase, the
\* participants list of a tournament never holds a player twice.
C6_NoDuplicateParticipants ==
    \A c \in DOMAIN active_tournaments : Distinct(active_tournaments[c].participants)

\* a participant's second join has just been refused, the bracket being built
C6_SecondJoinRefused ==
    /\ answer = "already_joined"
    /\ \E c \in DOMAIN active_tournaments :
          /\ active_tournaments[c].bracket # EmptyBracket
          /\ Len(active_tournaments[c].participants) >= 2

\* the players of a round, match by match, team1 before team2
RoundPlayers(matches) ==
    Flatten([i \in DOMAIN matches |-> matches[i].team1 \o matches[i].team2])

RoundsDistinct(bracket) ==
    \A r \in DOMAIN bracket.rounds : Distinct(RoundPlayers(bracket.rounds[r]))

\* C9: in every round of every tournament, active or just finished, of every
\* format, a player appears at most once across the team1 and team2
\* sequences of the round's matches.
C9_PlayerOncePerRound ==
    /\ \A c \in DOMAIN active_tournaments : RoundsDistinct(active_tournaments[c].bracket)
    /\ finished # NoFinish => RoundsDistinct(finished.tournament.bracket)

\* a second round is being played after a round of three matches
C9_SecondRoundOfThree ==
    \E c \in DOMAIN active_tournaments :
        LET bracket == active_tournaments[c].bracket
        IN  /\ bracket.current_round = 2
            /\ Len(bracket.rounds[1]) = 3
            /\ Len(RoundPlayers(bracket.rounds[2])) = 2

CanStartExpected(format_type, n) ==
    \/ format_type = "1v1" /\ n >= 2
    \/ format_type = "2v2" /\ 4 <= n /\ n <= 12 /\ n % 2 = 0
    \/ format_type = "3v3" /\ 6 <= n /\ n <= 18 /\ n % 3 = 0

\* C7: the start conditions are met exactly when the format is 1v1 and
\* n >= 2, or 2v2 and 4 <= n <= 12 and n is even, or 3v3 and 6 <= n <= 18
\* and n is divisible by 3, n being the number of participants; evaluating
\* them changes no tournament.
C7_StartConditions ==
    [][\A c \in DOMAIN active_tournaments, u \in Users :
         RefreshMessage(c, u)
         => /\ answer' \in {"ready", "ready_start_offered", "not_ready"}
            /\ answer' \in {"ready", "ready_start_offered"}
                  <=> CanStartExpected(active_tournaments[c].format,
                                       Len(active_tournaments[c].participants))
            /\ UNCHANGED <<active_tournaments, match_scores>>]_vars

\* the start conditions have just refused 14 participants of a 2v2 tournament
C7_RefusedAboveCap ==
    /\ answer = "not_ready"
    /\ \E c \in DOMAIN active_tournaments :
          /\ active_tournaments[c].format = "2v2"
          /\ Len(active_tournaments[c].participants) = 14

\* C8: the round-1 bracket of a 1v1 roster of an even number n >= 2 of
\* distinct participants has, whatever the shuffle, exactly n/2 matches,
\* each with one participant per side and the two sides distinct, and the
\* members of the matches are together the roster.
C8_BracketComplete ==
    \A c \in DOMAIN active_tournaments :
        LET tournament == active_tournaments[c]
            n == Len(tournament.participants)
            matches == tournament.bracket.rounds[1]
        IN  (tournament.format = "1v1" /\ tournament.bracket # EmptyBracket /\ n % 2 = 0)
            => /\ Len(matches) = n \div 2
               /\ \A i \in DOMAIN matches :
                     /\ Len(matches[i].team1) = 1
                     /\ Len(matches[i].team2) = 1
                     /\ matches[i].team1 # matches[i].team2
               /\ Members(matches) = Range(tournament.participants)

\* the bracket of a roster of eight has been built
C8_EightPaired ==
    \E c \in DOMAIN active_tournaments :
        /\ Len(active_tournaments[c].participants) = 8
        /\ active_tournaments[c].bracket # EmptyBracket
        /\ Len(active_tournaments[c].bracket.rounds[1]) = 4

\* C10: a winner once set never changes and never reverts to unset, and a
\* round whose matches all have a winner is never modified again (teams,
\* winners, order) by any later event on the tournament.
C10_DecidedIsFinal ==
    [][\A c \in DOMAIN active_tournaments :
         LET before == active_tournaments[c].bracket.rounds
             after == TournamentAfter(c).bracket.rounds
         IN  \A r \in DOMAIN before :
               /\ \A n \in DOMAIN before[r] :
                     Decided(before[r][n])
                     => /\ r \in DOMAIN after
                        /\ n \in DOMAIN after[r]
                        /\ after[r][n].winner = before[r][n].winner
               /\ (before[r] # << >> /\ AllFinished(before[r]))
                     => (r \in DOMAIN after /\ after[r] = before[r])]_vars

\* some match of the bracket, in whatever round, carries this id and has its winner set
DecidedWithId(bracket, id) ==
    \E r \in DOMAIN bracket.rounds :
        \E n \in DOMAIN bracket.rounds[r] :
            bracket.rounds[r][n].match_id = id /\ Decided(bracket.rounds[r][n])

\* C11: once a match with match id k of a tournament has its winner set, a
\* later match-winner button carrying the id k is not accepted in that
\* tournament: it changes no tournament and increments no score counter,
\* also when the next round has been built.
C11_DecidedIdStaysClosed ==
    [][\A c \in DOMAIN active_tournaments :
         \A id \in PlayIds, side \in Sides :
           (/\ DecidedWithId(active_tournaments[c].bracket, id)
            /\ MatchWinnerButton(c, id, side))
           => /\ UNCHANGED <<active_tournaments, match_scores>>
              /\ answer' = "match_finished_or_not_found"]_vars

\* C12: the participants list changes only during registration: once the
\* round-1 bracket is built, join and leave events leave it unchanged.
C12_RosterFrozenAfterStart ==
    [][\A c \in DOMAIN active_tournaments :
         \A u \in Users :
           (/\ active_tournaments[c].bracket # EmptyBracket
            /\ (Join(c, u) \/ Leave(c, u)))
           => /\ c \in DOMAIN active_tournaments'
              /\ active_tournaments'[c].participants
                    = active_tournaments[c].participants]_vars

\* C13: once format and wins_needed of a tournament are set, no event
\* changes either of them while the tournament is active.
C13_ConfigurationFixed ==
    [][\A c \in DOMAIN active_tournaments :
         (active_tournaments[c].wins_needed # WinsNone
          /\ c \in DOMAIN active_tournaments')
         => /\ active_tournaments'[c].format = active_tournaments[c].format
            /\ active_tournaments'[c].wins_needed
                  = active_tournaments[c].wins_needed]_vars

StartAllowed(c, u) ==
    /\ c \in DOMAIN active_tournaments
    /\ u = active_tournaments[c].creator
    /\ check_tournament_start_conditions(active_tournaments[c])

\* the step builds round 1 of chat c from the whole participants list: as many
\* matches as the list gives pairs of full teams, all open, of distinct participants
BuiltFromRoster(c) ==
    /\ c \in DOMAIN active_tournaments'
    /\ active_tournaments'[c].participants = active_tournaments[c].participants
    /\ LET tournament == active_tournaments[c]
           bracket == active_tournaments'[c].bracket
           size == IF tournament.format = "1v1" THEN 1 ELSE TeamSize(tournament.format)
       IN  /\ bracket.current_round = 1
           /\ DOMAIN bracket.rounds = {1}
           /\ Len(bracket.rounds[1]) = (Len(tournament.participants) \div size) \div 2
           /\ \A n \in DOMAIN bracket.rounds[1] : ~Decided(bracket.rounds[1][n])
           /\ Members(bracket.rounds[1]) \subseteq Range(tournament.participants)
           /\ Cardinality(Members(bracket.rounds[1])) = 2 * size * Len(bracket.rounds[1])

\* C14: a start-bracket event builds the round-1 bracket only if it comes
\* from the creator while the start conditions hold, and then it builds it
\* from the whole current participants list; any other start-bracket event is
\* rejected and changes neither the tournaments nor the scores; and whenever
\* the start conditions hold (also after an earlier refusal), the creator's
\* start-bracket event succeeds.
C14_StartGuarded ==
    /\ [](\A c \in DOMAIN active_tournaments :
            check_tournament_start_conditions(active_tournaments[c])
            => ENABLED StartBracket(c, active_tournaments[c].creator))
    /\ [][\A c \in Chats, u \in Users :
            (StartRefused(c, u) \/ StartBracket(c, u))
            => IF StartAllowed(c, u)
               THEN answer' = "round_shown" /\ BuiltFromRoster(c)
               ELSE /\ UNCHANGED <<active_tournaments, match_scores>>
                    /\ answer' \in {"only_creator_starts", "cannot_start"}]_vars

\* the bracket of a roster of three has just been built: two of them play
C14_StartedWithThree ==
    /\ answer = "round_shown"
    /\ \E c \in DOMAIN active_tournaments :
          /\ Len(active_tournaments[c].participants) = 3
          /\ Len(active_tournaments[c].bracket.rounds) = 1
          /\ Len(active_tournaments[c].bracket.rounds[1]) = 1

(***************************************************************************)
(* Brackets played with payloads the bot's own buttons do not carry: a     *)
(* side that is neither team1 nor team2, and /winner team numbers other    *)
(* than 1 and 2.                                                           *)
(***************************************************************************)
OtherSides == {"team3"}

OtherTeamNumbers == {0, 3}

NextForged ==
    \/ NextPlay
    \/ \E c \in Chats, id \in PlayIds, side \in OtherSides : MatchWinnerButton(c, id, side)
    \/ \E c \in Chats, m \in PlayArgs, t \in OtherTeamNumbers : WinnerCommand(c, 2, m, t)

SpecForged == InitPlay /\ [][NextForged]_vars

\* C15: a recordWin event whose side is neither team1 nor team2 (button
\* payload), or whose team number is neither 1 nor 2 (/winner), is rejected:
\* it changes no tournament and increments no score counter.
C15_MalformedSideRejected ==
    [][\A c \in Chats :
         /\ \A id \in PlayIds, side \in OtherSides :
               MatchWinnerButton(c, id, side)
               => UNCHANGED <<active_tournaments, match_scores>>
         /\ \A u \in Users, m \in PlayArgs, t \in OtherTeamNumbers :
               WinnerCommand(c, u, m, t)
               => UNCHANGED <<active_tournaments, match_scores>>]_vars

(***************************************************************************)
(* Brackets played while the join button is still pressed: once the        *)
(* bracket is built, further users join.                                   *)
(***************************************************************************)
LateUsers == 1..(MaxRoster + 1)

InitLate == InitRegistered(2..MaxRoster, {1})

NextLate ==
    \E c \in Chats :
        \/ NotStarted(c) /\ StartBracket(c, OwnerId)
        \/ \E u \in LateUsers : ~NotStarted(c) /\ Join(c, u)
        \/ \E id \in PlayIds, side \in Sides : MatchWinnerButton(c, id, side)
        \/ \E m \in PlayArgs, t \in {1, 2} : WinnerCommand(c, 2, m, t)

SpecLate == InitLate /\ [][NextLate]_vars

\* the participants that are in neither team of the match, in list order
OutsideOf(participants, match) ==
    SelectSeq(participants,
              LAMBDA p : p \notin (Range(match.team1) \cup Range(match.team2)))

\* C16: a tournament finished with a bracket of one round has the winner and
\* the loser of its match as 1st and 2nd; in 1v1 the 3rd place is the first
\* participant, in list order, who is in neither side of that match, and
\* there is none when every participant played it; in 2v2 and 3v3 there is
\* no 3rd place.
C16_SingleRoundPlacements ==
    (finished # NoFinish /\ Len(finished.tournament.bracket.rounds) = 1)
    => LET tournament == finished.tournament
           final == tournament.bracket.rounds[1][1]
           outside == OutsideOf(tournament.participants, final)
           top == << [place |-> 1, team |-> final.winner],
                     [place |-> 2,
                      team |-> IF final.winner = final.team1
                               THEN final.team2 ELSE final.team1] >>
       IN  finished.winners_data =
               IF tournament.format = "1v1" /\ outside # << >>
               THEN Append(top, [place |-> 3, team |-> <<outside[1]>>])
               ELSE top

\* a 1v1 tournament of one round has finished with two participants outside its match
C16_TwoOutside ==
    /\ finished # NoFinish
    /\ Len(finished.tournament.bracket.rounds) = 1
    /\ finished.tournament.format = "1v1"
    /\ Len(OutsideOf(finished.tournament.participants,
                     finished.tournament.bracket.rounds[1][1])) >= 2
    /\ Len(finished.winners_data) = 3

\* the calls among the rewards that went to this player
CallsFor(p) == {k \in DOMAIN awards : awards[k].user_id = p}

\* C17: at a finish, every member of the team of each place 1, 2, 3 the
\* placements name gets exactly one reward call, with that place and its
\* experience (100, 75, 50); the tournament-win counter is incremented for
\* the members of the 1st-place team only; nobody outside the placed teams
\* gets a reward, and no reward is handed out without a finish.
C17_RewardsFollowPlacements ==
    IF finished = NoFinish THEN awards = << >>
    ELSE LET winners_data == finished.winners_data
         IN  /\ \A i \in DOMAIN winners_data :
                   \A p \in Range(winners_data[i].team) :
                      /\ Cardinality(CallsFor(p)) = 1
                      /\ \A k \in CallsFor(p) :
                            /\ awards[k].place = winners_data[i].place
                            /\ awards[k].xp = CASE winners_data[i].place = 1 -> 100
                                                [] winners_data[i].place = 2 -> 75
                                                [] winners_data[i].place = 3 -> 50
                            /\ awards[k].wins = IF winners_data[i].place = 1 THEN 1 ELSE 0
             /\ \A k \in DOMAIN awards :
                   \E i \in DOMAIN winners_data :
                      awards[k].user_id \in Range(winners_data[i].team)

\* a 3v3 tournament has just finished: six reward calls, three of them for the 1st place
C17_TeamsRewarded ==
    /\ finished # NoFinish
    /\ finished.tournament.format = "3v3"
    /\ Len(awards) = 6
    /\ Cardinality({k \in DOMAIN awards : awards[k].wins = 1}) = 3

\* an event of the roster, the start or a result, addressed to chat c
TournamentEvent(c) ==
    \/ \E u \in Users : Join(c, u) \/ Leave(c, u) \/ StartRefused(c, u) \/ StartBracket(c, u)
    \/ \E id \in MatchIdInputs, side \in Sides : MatchWinnerButton(c, id, side)
    \/ \E u \in Users, m \in MatchArgInputs, t \in {1, 2} : WinnerCommand(c, u, m, t)

\* C18: right after a finish the chat has no active tournament; while a chat
\* has none, every join, leave, start-bracket and recordWin event for it is
\* rejected and changes nothing; and rewards are handed out only by the step
\* that removes the rewarded tournament, so at most once per tournament.
C18_FinishedIsGone ==
    /\ [](finished # NoFinish => finished.chat_id \notin DOMAIN active_tournaments)
    /\ [][/\ \A c \in Chats \ DOMAIN active_tournaments :
                TournamentEvent(c)
                => /\ UNCHANGED <<active_tournaments, match_scores>>
                   /\ awards' = << >>
                   /\ finished' = NoFinish
                   /\ answer' \in {"no_active_tournament", "only_creator_starts",
                                   "match_finished_or_not_found", "no_rights"}
          /\ awards' # << >>
                => /\ finished' # NoFinish
                   /\ finished'.chat_id \in DOMAIN active_tournaments
                   /\ finished'.chat_id \notin DOMAIN active_tournaments']_vars

\* a finish has just handed out rewards and removed the tournament
C18_RewardedAndRemoved ==
    /\ finished # NoFinish
    /\ awards # << >>
    /\ finished.chat_id \notin DOMAIN active_tournaments

MembersPerTeam(format_type) ==
    CASE format_type = "1v1" -> 1
      [] format_type = "2v2" -> 2
      [] format_type = "3v3" -> 3

TeamsSized(tournament) ==
    \A r \in DOMAIN tournament.bracket.rounds :
        \A n \in DOMAIN tournament.bracket.rounds[r] :
            LET match == tournament.bracket.rounds[r][n]
            IN  /\ Len(match.team1) = MembersPerTeam(tournament.format)
                /\ Len(match.team2) = MembersPerTeam(tournament.format)
                /\ Range(match.team1) \cap Range(match.team2) = {}

\* C19: in every round of a built bracket, of an active tournament or of the
\* one just finished, team1 and team2 of every match have exactly 1 member
\* in 1v1, 2 in 2v2 and 3 in 3v3, and share no member.
C19_TeamSizes ==
    /\ \A c \in DOMAIN active_tournaments : TeamsSized(active_tournaments[c])
    /\ finished # NoFinish => TeamsSized(finished.tournament)

\* a 3v3 bracket of two teams of three is being played
C19_ThreeAgainstThree ==
    \E c \in DOMAIN active_tournaments :
        /\ active_tournaments[c].format = "3v3"
        /\ Len(active_tournaments[c].bracket.rounds) = 1
        /\ Len(active_tournaments[c].bracket.rounds[1]) = 1
        /\ Len(active_tournaments[c].bracket.rounds[1][1].team1) = 3

(***************************************************************************)
(* The builders as functions of a list: every format on every list length  *)
(* up to MaxCount, the list in rising and in falling order of the ids.     *)
(***************************************************************************)
Reversed(s) == [i \in DOMAIN s |-> s[Len(s) + 1 - i]]

InitPairing ==
    /\ \E f \in Formats, n \in 0..MaxCount, order \in {"rising", "falling"} :
           active_tournaments =
               Put(EmptyDict, 1,
                   [Registered(f, 1, n) EXCEPT
                       !.participants = IF order = "rising" THEN @ ELSE Reversed(@)])
    /\ match_scores = EmptyDict
    /\ answer = ""
    /\ finished = NoFinish
    /\ awards = << >>
    /\ running = << >>

\* the builder of the format applied to the participants list as it stands
BuildRound(c) ==
    /\ NotStarted(c)
    /\ Apply(Outcome(
           [active_tournaments EXCEPT ![c].bracket =
               [rounds |-> <<BuildMatches(active_tournaments[c].participants,
                                          active_tournaments[c].format)>>,
                current_round |-> 1, winners |-> << >>]],
           match_scores, "built"))

NextPairing == \E c \in Chats : BuildRound(c)

SpecPairing == InitPairing /\ [][NextPairing]_vars

\* C20: a round built from an ordered list of n players with team size s
\* has exactly floor(floor(n/s)/2) matches; match j (from 0) has as team1
\* the players at positions 2js .. 2js+s-1 of the list and as team2 the next
\* s players, in list order; the players after the last pair of full teams
\* are in no match.
C20_ConsecutiveTeams ==
    \A c \in DOMAIN active_tournaments :
        LET tournament == active_tournaments[c]
            list == tournament.participants
            s == MembersPerTeam(tournament.format)
            matches == tournament.bracket.rounds[1]
        IN  tournament.bracket # EmptyBracket
            => /\ Len(matches) = (Len(list) \div s) \div 2
               /\ \A j \in 0..(Len(matches) - 1) :
                     /\ matches[j + 1].team1 = SubSeq(list, 2 * j * s + 1, 2 * j * s + s)
                     /\ matches[j + 1].team2
                           = SubSeq(list, 2 * j * s + s + 1, 2 * j * s + 2 * s)
               /\ Members(matches) = Range(SubSeq(list, 1, 2 * s * Len(matches)))

\* a 3v3 round has been built from 17 players: two matches, a full team and
\* two more players left out
C20_SeventeenInThrees ==
    \E c \in DOMAIN active_tournaments :
        /\ active_tournaments[c].format = "3v3"
        /\ Len(active_tournaments[c].participants) = 17
        /\ active_tournaments[c].bracket # EmptyBracket
        /\ Len(active_tournaments[c].bracket.rounds[1]) = 2

(***************************************************************************)
(* C21 .. C30                                                              *)
(***************************************************************************)
\* the step built a round of chat c: round 1 by the start button, or a later
\* round by the advance of the button or of /winner
RoundBuilt(c) ==
    /\ c \in DOMAIN active_tournaments'
    /\ \/ c \notin DOMAIN active_tournaments
       \/ active_tournaments'[c].bracket # active_tournaments[c].bracket
    /\ active_tournaments'[c].bracket # EmptyBracket
    /\ \/ answer' = "round_shown"
       \/ /\ c \in DOMAIN active_tournaments
          /\ CurrentRound(active_tournaments'[c].bracket)
                # CurrentRound(active_tournaments[c].bracket)

\* C21: right after a round is built (round 1 from the roster, a later round
\* from the winners, by the button or by /winner) every match of that round
\* has the score 0:0, whatever entries earlier matches left under its id.
C21_FreshScores ==
    [][\A c \in Chats :
         RoundBuilt(c) =>
           \A n \in DOMAIN CurrentMatches(active_tournaments'[c].bracket) :
              LET id == CurrentMatches(active_tournaments'[c].bracket)[n].match_id
              IN  id \in DOMAIN match_scores' /\ match_scores'[id] = ZeroScore]_vars

\* the final of four has just been built by /winner: its id 0 was used by a
\* first-round match decided at two wins, and its score is 0:0 again
C21_FinalStartsAtZero ==
    \E c \in DOMAIN active_tournaments :
        LET tournament == active_tournaments[c]
        IN  /\ answer = "winner_recorded"
            /\ tournament.wins_needed = 2
            /\ CurrentRound(tournament.bracket) = 2
            /\ Decided(tournament.bracket.rounds[1][1])
            /\ tournament.bracket.rounds[1][1].match_id = 0
            /\ CurrentMatches(tournament.bracket)[1].match_id = 0
            /\ ~Decided(CurrentMatches(tournament.bracket)[1])
            /\ match_scores[0] = ZeroScore

(***************************************************************************)
(* Started brackets of every format, one win deciding a match: the first   *)
(* round is built from the roster 1..n in rising or falling order (two of  *)
(* the orders random.shuffle can produce), for every n the start           *)
(* conditions accept that gives a round of at most MaxField \div 2         *)
(* matches; teams of two and three then go through a second round.         *)
(***************************************************************************)
InitTeams ==
    /\ \E f \in Formats, n \in 0..MaxCount, order \in {"rising", "falling"} :
          LET tournament == Registered(f, 1, n)
              shuffled == IF order = "rising" THEN Roster(n) ELSE Reversed(Roster(n))
              matches == BuildMatches(shuffled, f)
          IN  /\ check_tournament_start_conditions(tournament)
              /\ Len(matches) <= MaxField \div 2
              /\ active_tournaments =
                    Put(EmptyDict, 1,
                        [tournament EXCEPT !.bracket =
                            [rounds |-> <<matches>>, current_round |-> 1,
                             winners |-> << >>]])
              /\ match_scores = PutAll(EmptyDict, MatchIds(matches), ZeroScore)
    /\ answer = "round_shown"
    /\ finished = NoFinish
    /\ awards = << >>
    /\ running = << >>

NextTeams ==
    \E c \in Chats :
        \/ \E id \in FieldIds, side \in Sides : MatchWinnerButton(c, id, side)
        \/ \E m \in FieldArgs, t \in {1, 2} : WinnerCommand(c, 2, m, t)

SpecTeams == InitTeams /\ [][NextTeams]_vars

\* the brackets of the chats and of the tournament just finished
Brackets ==
    {active_tournaments[c].bracket : c \in DOMAIN active_tournaments}
        \cup (IF finished = NoFinish THEN {} ELSE {finished.tournament.bracket})

\* round r + 1 pairs the winners of round r in the order of its match list
PairsWinnersOf(bracket, r) ==
    LET sealed == bracket.rounds[r]
        next == bracket.rounds[r + 1]
    IN  /\ AllFinished(sealed)
        /\ Len(next) = Len(sealed) \div 2
        /\ \A j \in DOMAIN next :
              /\ next[j].team1 = sealed[2 * j - 1].winner
              /\ next[j].team2 = sealed[2 * j].winner

\* C22: winners are not reshuffled between rounds: when a round of at least
\* two matches is sealed, match j of the next round (counting from 0) has
\* team1 equal to the winning team of match 2j and team2 equal to the winning
\* team of match 2j+1 of the sealed round, in the order of its match list,
\* so every team of the next round is a winning team of the sealed round,
\* member for member and in the same order.
C22_WinnersKeepOrder ==
    \A bracket \in Brackets :
        \A r \in DOMAIN bracket.rounds :
            (r + 1 \in DOMAIN bracket.rounds /\ Len(bracket.rounds[r]) >= 2)
                => PairsWinnersOf(bracket, r)

\* twelve players in teams of two: three matches are sealed and the second
\* round is the winners of the first two of them, the third winner left out
C22_SixTeamsSealed ==
    \E c \in DOMAIN active_tournaments :
        LET tournament == active_tournaments[c]
            bracket == tournament.bracket
        IN  /\ tournament.format = "2v2"
            /\ bracket.current_round = 2
            /\ Len(bracket.rounds[1]) = 3
            /\ Len(bracket.rounds[2]) = 1
            /\ Len(bracket.rounds[2][1].team1) = 2
            /\ bracket.rounds[2][1].team1 = bracket.rounds[1][1].winner
            /\ bracket.rounds[2][1].team2 = bracket.rounds[1][2].winner

\* user u presses the button "match_winner_<id>_<side>": set_match_winner
\* never reads query.from_user, so the step is the same for every u
ButtonPressedBy(c, u, id, side) == MatchWinnerButton(c, id, side)

\* C23: result entry is privileged: a recordWin event issued by a user whose
\* role is not moderator, admin or owner (and who is not the configured
\* owner) is rejected and changes neither the tournaments nor the scores, on
\* the button path and on the /winner path alike (stated for tournaments
\* whose wins_needed is set).
C23_ResultEntryPrivileged ==
    [][\A c \in DOMAIN active_tournaments, u \in Users :
         (NoRights(u) /\ active_tournaments[c].wins_needed >= 1) =>
           /\ \A id \in MatchIdInputs, side \in Sides :
                 ButtonPressedBy(c, u, id, side)
                    => UNCHANGED <<active_tournaments, match_scores>>
           /\ \A m \in MatchArgInputs, t \in {1, 2} :
                 WinnerCommand(c, u, m, t)
                    => UNCHANGED <<active_tournaments, match_scores>>]_vars

\* C24: in every reachable state in which a bracket has been built,
\* wins_needed is a positive integer, never unset.
C24_WinsNeededSet ==
    \A c \in DOMAIN active_tournaments :
        active_tournaments[c].bracket # EmptyBracket
            => active_tournaments[c].wins_needed >= 1

(***************************************************************************)
(* set_match_winner and finish_tournament step by step: a handler runs     *)
(* from one await to the next, and its locals live in a frame of running   *)
(* while it is suspended.  The bracket is started (1v1, rising order), and *)
(* the events are presses of the winner buttons.                           *)
(***************************************************************************)
MaxRunning == 2

\* a dispatcher that hands over the next update whatever is in progress
DispatcherAlwaysReady == Len(running) >= 0

\* Application.builder().token(BOT_TOKEN).build() leaves concurrent_updates
\* off and every handler is registered blocking: the next update is handed
\* over when the handler of the previous one has returned
DispatcherIdle == running = << >>

DropAt(s, k) == [i \in 1..(Len(s) - 1) |-> IF i < k THEN s[i] ELSE s[i + 1]]

\* the db.add_tournament_win calls of one iteration of the reward loop
PlaceCalls(winners_data, place) ==
    [k \in DOMAIN winners_data[place].team |->
        add_tournament_win(winners_data[place].team[k], place)]

\* winners_data[:3]
RewardedPlaces(winners_data) ==
    IF Len(winners_data) < 3 THEN Len(winners_data) ELSE 3

InitAwait ==
    /\ \E n \in 2..MaxRoster, w \in WinsButtons :
          LET matches == BuildMatches(Roster(n), "1v1")
          IN  /\ active_tournaments =
                    Put(EmptyDict, 1,
                        [Registered("1v1", w, n) EXCEPT !.bracket =
                            [rounds |-> <<matches>>, current_round |-> 1,
                             winners |-> << >>]])
              /\ match_scores = PutAll(EmptyDict, MatchIds(matches), ZeroScore)
    /\ answer = "round_shown"
    /\ finished = NoFinish
    /\ awards = << >>
    /\ running = << >>

\* set_match_winner up to its first await: the lookup, the rejection, the
\* score increment; the handler then waits for get_team_names
Deliver(c, id, side) ==
    /\ DispatcherIdle
    /\ Len(running) < MaxRunning
    /\ c \in DOMAIN active_tournaments
    /\ LET tournament == active_tournaments[c]
           matches == CurrentMatches(tournament.bracket)
           n == FindMatch(matches, id)
           ms == AddWin(match_scores, id, side = "team1")
       IN  IF NotOpen(matches, n)
           THEN /\ UNCHANGED <<active_tournaments, match_scores, finished, awards, running>>
                /\ answer' = "match_finished_or_not_found"
           ELSE /\ match_scores' = ms
                /\ running' = Append(running,
                       [pc |-> "names", chat_id |-> c,
                        current_round |-> CurrentRound(tournament.bracket),
                        n |-> n, wins_needed |-> tournament.wins_needed,
                        team1_wins |-> ms[id].team1_wins,
                        team2_wins |-> ms[id].team2_wins,
                        place |-> 0, winners_data |-> << >>,
                        tournament |-> tournament])
                /\ answer' = "suspended"
                /\ finished' = IF running = << >> THEN NoFinish ELSE finished
                /\ awards' = IF running = << >> THEN << >> ELSE awards
                /\ UNCHANGED active_tournaments

\* from get_team_names to the message that announces the win: the winner is
\* written into the match when the counters read before the await reach
\* wins_needed
ResumeNames(k) ==
    /\ k \in DOMAIN running
    /\ running[k].pc = "names"
    /\ LET f == running[k]
           c == f.chat_id
       IN  IF f.wins_needed = WinsNone
           THEN /\ running' = DropAt(running, k)
                /\ answer' = "TypeError"
                /\ UNCHANGED <<active_tournaments, match_scores, finished, awards>>
           ELSE /\ running' = [running EXCEPT ![k].pc = "announce"]
                /\ answer' = "suspended"
                /\ active_tournaments' =
                      IF c \in DOMAIN active_tournaments
                      THEN LET match == active_tournaments[c].bracket.rounds[f.current_round][f.n]
                           IN  [active_tournaments EXCEPT
                                  ![c].bracket.rounds[f.current_round][f.n].winner =
                                      WinnerByScore(match, f, f.wins_needed)]
                      ELSE active_tournaments
                /\ UNCHANGED <<match_scores, finished, awards>>

\* the end of finish_tournament: the scores of the bracket and the
\* tournament are deleted, the final message is sent
FinishEnd(k, at, tournament, winners_data) ==
    LET c == running[k].chat_id
    IN  /\ active_tournaments' = Del(at, c)
        /\ match_scores' = DelAll(match_scores, AllMatchIds(tournament.bracket))
        /\ finished' = [chat_id |-> c, tournament |-> tournament,
                        winners_data |-> winners_data]
        /\ answer' = "winner_set"
        /\ running' = DropAt(running, k)
        /\ UNCHANGED awards

\* one iteration of the reward loop, up to its await of get_team_names
RewardPlace(k, at, tournament, winners_data, place) ==
    /\ active_tournaments' = at
    /\ awards' = awards \o PlaceCalls(winners_data, place)
    /\ running' = [running EXCEPT ![k].pc = "reward", ![k].place = place,
                                  ![k].winners_data = winners_data,
                                  ![k].tournament = tournament]
    /\ answer' = "suspended"
    /\ UNCHANGED <<match_scores, finished>>

\* after the announcement: the round check, then either finish_tournament up
\* to the first await of its reward loop, or the next round and
\* show_current_round, or show_current_round alone.  A handler that finds
\* its tournament removed meanwhile ends without touching the tournaments.
ResumeAnnounce(k) ==
    /\ k \in DOMAIN running
    /\ running[k].pc = "announce"
    /\ LET f == running[k]
           c == f.chat_id
       IN  IF c \notin DOMAIN active_tournaments
           THEN /\ running' = DropAt(running, k)
                /\ answer' = "KeyError"
                /\ UNCHANGED <<active_tournaments, match_scores, finished, awards>>
           ELSE
           LET matches == active_tournaments[c].bracket.rounds[f.current_round]
               winners == WinnersOf(matches)
               winners_flat == Flatten(winners)
           IN  IF AllFinished(matches) /\ Len(winners) = 1
               THEN LET at == [active_tournaments EXCEPT
                                  ![c].bracket.winners = winners_flat]
                        winners_data == determine_tournament_winners(at[c])
                    IN  IF RewardedPlaces(winners_data) = 0
                        THEN FinishEnd(k, at, at[c], winners_data)
                        ELSE RewardPlace(k, at, at[c], winners_data, 1)
               ELSE IF AllFinished(matches)
               THEN LET next_round == f.current_round + 1
                        next_matches == BuildMatches(winners_flat,
                                                     active_tournaments[c].format)
                    IN  /\ active_tournaments' =
                              [active_tournaments EXCEPT
                                  ![c].bracket.rounds = Put(@, next_round, next_matches),
                                  ![c].bracket.current_round = next_round]
                        /\ match_scores' =
                              PutAll(match_scores, MatchIds(next_matches), ZeroScore)
                        /\ running' = DropAt(running, k)
                        /\ answer' = "winner_set"
                        /\ UNCHANGED <<finished, awards>>
               ELSE /\ running' = DropAt(running, k)
                    /\ answer' = "winner_set"
                    /\ UNCHANGED <<active_tournaments, match_scores, finished, awards>>

\* the reward loop after an await: the next placement, or the end of the loop
ResumeReward(k) ==
    /\ k \in DOMAIN running
    /\ running[k].pc = "reward"
    /\ LET f == running[k]
       IN  IF f.place + 1 <= RewardedPlaces(f.winners_data)
           THEN RewardPlace(k, active_tournaments, f.tournament, f.winners_data,
                            f.place + 1)
           ELSE FinishEnd(k, active_tournaments, f.tournament, f.winners_data)

NextAwait ==
    \/ \E c \in Chats, id \in PlayIds, side \in Sides : Deliver(c, id, side)
    \/ \E k \in 1..MaxRunning : ResumeNames(k)
    \/ \E k \in 1..MaxRunning : ResumeAnnounce(k)
    \/ \E k \in 1..MaxRunning : ResumeReward(k)

SpecAwait == InitAwait /\ [][NextAwait]_vars

\* the user ids of the reward calls
RewardedUsers == [i \in DOMAIN awards |-> awards[i].user_id]

\* no handler is in progress beside another, no match of an active round has
\* counted more wins than a best-of series can hold, and nobody is rewarded
\* twice: a finished tournament has made exactly the calls of its placements
RunsToCompletion ==
    /\ Len(running) <= 1
    /\ \A c \in DOMAIN active_tournaments :
          \A n \in DOMAIN ActiveMatches(c) :
             LET score == ScoreOf(match_scores, ActiveMatches(c)[n].match_id)
                 wins_needed == active_tournaments[c].wins_needed
             IN  /\ score.team1_wins + score.team2_wins <= 2 * wins_needed - 1
                 /\ (running = << >>) =>
                       (Decided(ActiveMatches(c)[n])
                          <=> (\/ score.team1_wins = wins_needed
                               \/ score.team2_wins = wins_needed))
    /\ Distinct(RewardedUsers)
    /\ (finished # NoFinish) => awards = AwardCalls(finished.winners_data, 1)

\* a round that exists keeps its matches, a decided match keeps its winner,
\* and the counters of a round that stays active do not go back
BuiltOnce ==
    \A c \in DOMAIN active_tournaments :
        c \in DOMAIN active_tournaments' =>
           LET before == active_tournaments[c].bracket
               after == active_tournaments'[c].bracket
           IN  /\ \A r \in DOMAIN before.rounds :
                     /\ r \in DOMAIN after.rounds
                     /\ Len(after.rounds[r]) = Len(before.rounds[r])
                     /\ \A n \in DOMAIN before.rounds[r] :
                           /\ after.rounds[r][n].team1 = before.rounds[r][n].team1
                           /\ after.rounds[r][n].team2 = before.rounds[r][n].team2
                           /\ Decided(before.rounds[r][n])
                                 => after.rounds[r][n] = before.rounds[r][n]
               /\ after.current_round \in {before.current_round,
                                           before.current_round + 1}
               /\ (after.current_round = before.current_round) =>
                     \A n \in DOMAIN CurrentMatches(before) :
                        LET id == CurrentMatches(before)[n].match_id
                        IN  /\ ScoreOf(match_scores', id).team1_wins
                                  >= ScoreOf(match_scores, id).team1_wins
                            /\ ScoreOf(match_scores', id).team2_wins
                                  >= ScoreOf(match_scores, id).team2_wins

\* C25: the handlers of one tournament's events do not interleave at their
\* awaits, each runs to completion before the next starts; so of two
\* recordWin events for one match the second sees the score and the winner
\* the first left, a sealed round builds its next round once, and a decided
\* final distributes the rewards once.
C25_HandlersRunToCompletion == []RunsToCompletion /\ [][BuiltOnce]_vars

\* a second press for a match was answered after the handler of the first
\* had returned and decided it: it found the winner set and was rejected
C25_SecondPressSeesWinner ==
    /\ running = << >>
    /\ answer = "match_finished_or_not_found"
    /\ \E c \in DOMAIN active_tournaments :
          \E n \in DOMAIN ActiveMatches(c) :
             /\ Decided(ActiveMatches(c)[n])
             /\ active_tournaments[c].wins_needed = 2
             /\ ScoreOf(match_scores, ActiveMatches(c)[n].match_id).team1_wins = 2

\* the handler of the press that decided the final of three players has
\* returned: three placements rewarded, each player once
C25_RewardedOnce ==
    /\ running = << >>
    /\ finished # NoFinish
    /\ Len(awards) = 3
    /\ Distinct(RewardedUsers)

(***************************************************************************)
(* The events with the database failing or not: db_ok says whether the     *)
(* sqlite calls made during the handler succeed.                           *)
(***************************************************************************)
NoUser == << >>

\* Database.get_user: the row of the user, or None when the query raised
get_user(user_id, db_ok) ==
    IF db_ok THEN [user_id |-> user_id, role |-> Role(user_id)] ELSE NoUser

\* not user or user.get('role') not in [...] and user_id != OWNER_ID
RightsRefused(user, user_id) ==
    \/ user = NoUser
    \/ user.role \notin {"moderator", "admin", "owner"} /\ user_id # OwnerId

\* try: self.db.<write>(...) except Exception: logger.error(...): a failed
\* write is logged and the handler goes on with the state it had
AfterWrite(o, db_ok) == o

join_tournament_stored(chat_id, user_id, db_ok) ==
    AfterWrite(join_tournament(chat_id, user_id), db_ok)

start_tournament_bracket_stored(chat_id, user_id, shuffled, db_ok) ==
    IF StartRejection(chat_id, user_id) # ""
    THEN Rejected(StartRejection(chat_id, user_id))
    ELSE AfterWrite(create_tournament_bracket(chat_id, shuffled), db_ok)

set_match_winner_stored(chat_id, match_id, winning_team, db_ok) ==
    AfterWrite(set_match_winner(chat_id, match_id, winning_team), db_ok)

winner_command_stored(chat_id, user_id, match_arg, team_number, db_ok) ==
    IF RightsRefused(get_user(user_id, db_ok), user_id) THEN Rejected("no_rights")
    ELSE AfterWrite(winner_command(chat_id, user_id, match_arg, team_number), db_ok)

JoinStored(c, u, db_ok) == Apply(join_tournament_stored(c, u, db_ok))

StartStored(c, u, db_ok) ==
    /\ StartRejection(c, u) = ""
    /\ \E shuffled \in Shuffles(active_tournaments[c].participants) :
           Apply(start_tournament_bracket_stored(c, u, shuffled, db_ok))

ButtonStored(c, id, side, db_ok) ==
    /\ WithinCap(set_match_winner_stored(c, id, side, db_ok))
    /\ Apply(set_match_winner_stored(c, id, side, db_ok))

CommandStored(c, u, m, t, db_ok) ==
    /\ WithinCap(winner_command_stored(c, u, m, t, db_ok))
    /\ Apply(winner_command_stored(c, u, m, t, db_ok))

NextStore ==
    \E c \in Chats, db_ok \in BOOLEAN :
        \/ \E u \in Users : NotStarted(c) /\ JoinStored(c, u, db_ok)
        \/ NotStarted(c) /\ StartStored(c, OwnerId, db_ok)
        \/ \E id \in PlayIds, side \in Sides : ButtonStored(c, id, side, db_ok)
        \/ \E u \in Users, m \in PlayArgs, t \in {1, 2} : CommandStored(c, u, m, t, db_ok)

SpecStore == InitPlay /\ [][NextStore]_vars

\* two outcomes of a handler leave the same tournaments and scores
SameOutcome(a, b) ==
    /\ a.at = b.at
    /\ a.ms = b.ms
    /\ a.finished = b.finished

\* C26: a persistence failure never changes the behaviour: for every event
\* (join, start-bracket, recordWin by button or by /winner, with the round
\* advance and the finish they bring) the participants, the bracket, the
\* scores and the set of active tournaments after the event are the same
\* whether the database calls made during it succeeded or failed.
C26_StoreFailureHarmless ==
    \A c \in DOMAIN active_tournaments, u \in Users :
        /\ SameOutcome(join_tournament_stored(c, u, TRUE),
                       join_tournament_stored(c, u, FALSE))
        /\ \A shuffled \in Shuffles(active_tournaments[c].participants) :
              SameOutcome(start_tournament_bracket_stored(c, u, shuffled, TRUE),
                          start_tournament_bracket_stored(c, u, shuffled, FALSE))
        /\ \A id \in PlayIds, side \in Sides :
              SameOutcome(set_match_winner_stored(c, id, side, TRUE),
                          set_match_winner_stored(c, id, side, FALSE))
        /\ \A m \in PlayArgs, t \in {1, 2} :
              SameOutcome(winner_command_stored(c, u, m, t, TRUE),
                          winner_command_stored(c, u, m, t, FALSE))

\* the list s without the elements equal to x, the others in their order
Without(s, x) ==
    LET Other(y) == y # x
    IN  SelectSeq(s, Other)

\* C27: during registration, join of a player not in the roster succeeds at
\* any roster size and appends the player at the end; join of a player
\* already present and leave of a player not present leave the roster
\* unchanged; leave of a present player removes that player only and keeps
\* the order of the others, so join(p) followed by leave(p) of a new player
\* restores the roster.
C27_RosterAlgebra ==
    [][\A c \in DOMAIN active_tournaments, u \in Users :
         LET roster == active_tournaments[c].participants
             after == TournamentAfter(c).participants
         IN  NotStarted(c) =>
               /\ Join(c, u) =>
                     /\ after = IF IsIn(u, roster) THEN roster ELSE Append(roster, u)
                     /\ answer' = IF IsIn(u, roster) THEN "already_joined" ELSE "joined"
               /\ Leave(c, u) =>
                     /\ after = IF IsIn(u, roster) THEN Without(roster, u) ELSE roster
                     /\ answer' = IF IsIn(u, roster) THEN "left" ELSE "not_participating"
               /\ ~IsIn(u, roster) => Remove(Append(roster, u), u) = roster]_vars

\* the player in the middle of a roster of three has just left during
\* registration, the other two stay in their order
C27_MiddleLeft ==
    /\ answer = "left"
    /\ \E c \in DOMAIN active_tournaments :
          /\ NotStarted(c)
          /\ Len(active_tournaments[c].participants) = 2
          /\ \E u \in Users :
                /\ active_tournaments[c].participants[1] < u
                /\ u < active_tournaments[c].participants[2]

\* C28: in every round of every bracket, the match at zero-based position i
\* of the round's match list has match_id i: the ids restart at 0 in every
\* round, whether the round was built by the start, by the button or by
\* /winner.
C28_IdIsPosition ==
    \A bracket \in Brackets :
        \A r \in DOMAIN bracket.rounds :
            \A n \in DOMAIN bracket.rounds[r] :
                bracket.rounds[r][n].match_id = n - 1

\* a second round exists beside a first round of three matches, and its
\* only match has the id 0 again
C28_IdsRestart ==
    \E c \in DOMAIN active_tournaments :
        LET bracket == active_tournaments[c].bracket
        IN  /\ bracket.current_round = 2
            /\ Len(bracket.rounds[1]) = 3
            /\ bracket.rounds[1][3].match_id = 2
            /\ bracket.rounds[2][1].match_id = 0

\* the positions of the matches of chat c's active round that have no winner
OpenMatches(c) == {n \in DOMAIN ActiveMatches(c) : ~Decided(ActiveMatches(c)[n])}

Started(c) == active_tournaments[c].bracket # EmptyBracket

\* C29 as stated: in every reachable state of a started, unfinished
\* tournament, exactly one match of the active round has its winner unset.
C29_ExactlyOneOpen ==
    \A c \in DOMAIN active_tournaments :
        Started(c) => Cardinality(OpenMatches(c)) = 1

\* C29, amended: in every reachable state of a started, unfinished
\* tournament, at least one match of the active round has its winner unset:
\* the event that decides the last open match advances or finishes in the
\* same step.
C29_SomeMatchOpen ==
    \A c \in DOMAIN active_tournaments :
        Started(c) => OpenMatches(c) # {}

\* one of the two matches of a first round is decided, the other is open
C29_OneOfTwoOpen ==
    \E c \in DOMAIN active_tournaments :
        /\ Started(c)
        /\ Len(ActiveMatches(c)) = 2
        /\ Cardinality(OpenMatches(c)) = 1

\* the current_round pointer and the set of rounds of chat c are as before
PointerStays(c) ==
    /\ c \in DOMAIN active_tournaments'
    /\ active_tournaments'[c].bracket.current_round
          = active_tournaments[c].bracket.current_round
    /\ DOMAIN active_tournaments'[c].bracket.rounds
          = DOMAIN active_tournaments[c].bracket.rounds

\* the step is a recordWin event that seals round r of chat c with at least
\* two winners and adds round r + 1, to which the pointer moves
SealsAndAdvances(c, r) ==
    /\ \E n \in DOMAIN ActiveMatches(c), side \in Sides : RecordWin(c, n, side)
    /\ LET after == active_tournaments'[c].bracket
       IN  /\ AllFinished(after.rounds[r])
           /\ Len(WinnersOf(after.rounds[r])) >= 2
           /\ after.current_round = r + 1
           /\ r + 1 \notin DOMAIN active_tournaments[c].bracket.rounds
           /\ DOMAIN after.rounds = DOMAIN active_tournaments[c].bracket.rounds \cup {r + 1}

\* C30: the current_round pointer of a started bracket changes only as the
\* effect of a recordWin event after which every match of the active round
\* has a winner and there are at least two winners; it then moves by exactly
\* one round and the new round is added in the same step.  A recordWin that
\* leaves a match of the round undecided leaves the pointer and the set of
\* rounds unchanged.
C30_PointerMovesOnSeal ==
    [][\A c \in DOMAIN active_tournaments :
         LET r == active_tournaments[c].bracket.current_round
         IN  (Started(c) /\ c \in DOMAIN active_tournaments') =>
               /\ PointerStays(c) \/ SealsAndAdvances(c, r)
               /\ \A n \in DOMAIN ActiveMatches(c), side \in Sides :
                     (/\ RecordWin(c, n, side)
                      /\ ~AllFinished(active_tournaments'[c].bracket.rounds[r]))
                        => PointerStays(c)]_vars

(***************************************************************************)
(* C31 .. C39                                                              *)
(***************************************************************************)
\* C31: for every match of the active round of a started tournament whose
\* wins_needed is set, both win counters are between 0 and wins_needed,
\* their sum is at most 2 * wins_needed - 1, at most one of them equals
\* wins_needed, and the winner is team1 exactly when team1_wins =
\* wins_needed, team2 exactly when team2_wins = wins_needed, unset otherwise.
C31_ScoresWithinSeries ==
    \A c \in DOMAIN active_tournaments :
        (Started(c) /\ active_tournaments[c].wins_needed >= 1) =>
            \A n \in DOMAIN ActiveMatches(c) :
                LET match == ActiveMatches(c)[n]
                    score == ScoreOf(match_scores, match.match_id)
                    wins_needed == active_tournaments[c].wins_needed
                IN  /\ score.team1_wins \in 0..wins_needed
                    /\ score.team2_wins \in 0..wins_needed
                    /\ score.team1_wins + score.team2_wins <= 2 * wins_needed - 1
                    /\ match.winner =
                          IF score.team1_wins = wins_needed THEN match.team1
                          ELSE IF score.team2_wins = wins_needed THEN match.team2
                          ELSE NoWinner

\* the step is an event handled for chat a: the start button, a winner
\* button or a /winner command
EventFor(a) ==
    \/ StartBracket(a, OwnerId)
    \/ \E id \in MatchIdInputs, side \in Sides : MatchWinnerButton(a, id, side)
    \/ \E u \in Users, m \in MatchArgInputs, t \in {1, 2} : WinnerCommand(a, u, m, t)

\* C32: tournaments are isolated per chat: no event handled for chat a
\* (start-bracket, recordWin, round advance, finish) changes the score
\* counters, winners, rounds or participants of the tournament of another
\* chat b; the score of a match of b is never reset by activity in a.
C32_ChatsIsolated ==
    [][\A a \in DOMAIN active_tournaments, b \in DOMAIN active_tournaments :
         (a # b /\ EventFor(a)) =>
            /\ b \in DOMAIN active_tournaments'
            /\ active_tournaments'[b] = active_tournaments[b]
            /\ \A n \in DOMAIN ActiveMatches(b) :
                  ScoreOf(match_scores', ActiveMatches(b)[n].match_id)
                     = ScoreOf(match_scores, ActiveMatches(b)[n].match_id)]_vars

\* the score with one more win for the side
Incremented(score, side) ==
    IF side = "team1" THEN [score EXCEPT !.team1_wins = @ + 1]
    ELSE [score EXCEPT !.team2_wins = @ + 1]

\* C33: an accepted recordWin(match, side) leaves the participants, the
\* earlier rounds, the teams of the named match and every other match of the
\* active round unchanged; when the tournament stays in the round it
\* increments the counter of the named side of the named match by exactly 1
\* and leaves the other counter and the scores of the other matches of the
\* round unchanged.
C33_OneCounterMoves ==
    [][\A c \in DOMAIN active_tournaments :
         \A n \in DOMAIN ActiveMatches(c), side \in Sides :
           LET tournament == active_tournaments[c]
               r == CurrentRound(tournament.bracket)
               match == ActiveMatches(c)[n]
               others == DOMAIN ActiveMatches(c) \ {n}
           IN  (/\ tournament.wins_needed >= 1
                /\ ~Decided(match)
                /\ RecordWin(c, n, side))
               => /\ TournamentAfter(c).participants = tournament.participants
                  /\ \A q \in 1..(r - 1) :
                        TournamentAfter(c).bracket.rounds[q] = tournament.bracket.rounds[q]
                  /\ MatchAfter(c, r, n).team1 = match.team1
                  /\ MatchAfter(c, r, n).team2 = match.team2
                  /\ MatchAfter(c, r, n).match_id = match.match_id
                  /\ \A k \in others : MatchAfter(c, r, k) = ActiveMatches(c)[k]
                  /\ StaysInRound(c, r) =>
                        /\ match_scores'[match.match_id]
                              = Incremented(ScoreOf(match_scores, match.match_id), side)
                        /\ \A k \in others :
                              ScoreOf(match_scores', ActiveMatches(c)[k].match_id)
                                 = ScoreOf(match_scores, ActiveMatches(c)[k].match_id)]_vars

\* in a round of two matches with two wins needed, the second match stands
\* at 1:1 after a recorded win while the first has not been played
C33_OneAllBesideUntouched ==
    /\ answer \in {"winner_set", "winner_recorded"}
    /\ \E c \in DOMAIN active_tournaments :
          /\ Len(ActiveMatches(c)) = 2
          /\ active_tournaments[c].wins_needed = 2
          /\ ScoreOf(match_scores, ActiveMatches(c)[1].match_id) = ZeroScore
          /\ ScoreOf(match_scores, ActiveMatches(c)[2].match_id)
                = [team1_wins |-> 1, team2_wins |-> 1]

\* the positions of the matches of a round in which the team plays
MatchesOf(matches, team) ==
    {n \in DOMAIN matches : matches[n].team1 = team \/ matches[n].team2 = team}

\* C34: every team that wins a match of a non-final round appears in
\* exactly one match of the next round, so no match winner is eliminated
\* without losing a match.
C34_WinnersGoOn ==
    \A bracket \in Brackets :
        \A r \in DOMAIN bracket.rounds :
            (r + 1 \in DOMAIN bracket.rounds) =>
                \A n \in DOMAIN bracket.rounds[r] :
                    Decided(bracket.rounds[r][n]) =>
                        Cardinality(MatchesOf(bracket.rounds[r + 1],
                                              bracket.rounds[r][n].winner)) = 1

(***************************************************************************)
(* Started brackets played to the end under fair delivery: as SpecTeams,   *)
(* with every number of wins the buttons offer, and an accepted recordWin  *)
(* is eventually delivered while a match of the active round is open.      *)
(***************************************************************************)
InitLive ==
    /\ \E f \in Formats, w \in WinsButtons, n \in 0..MaxCount,
          order \in {"rising", "falling"} :
          LET tournament == Registered(f, w, n)
              shuffled == IF order = "rising" THEN Roster(n) ELSE Reversed(Roster(n))
              matches == BuildMatches(shuffled, f)
          IN  /\ check_tournament_start_conditions(tournament)
              /\ Len(matches) <= MaxField \div 2
              /\ active_tournaments =
                    Put(EmptyDict, 1,
                        [tournament EXCEPT !.bracket =
                            [rounds |-> <<matches>>, current_round |-> 1,
                             winners |-> << >>]])
              /\ match_scores = PutAll(EmptyDict, MatchIds(matches), ZeroScore)
    /\ answer = "round_shown"
    /\ finished = NoFinish
    /\ awards = << >>
    /\ running = << >>

NextLive ==
    \E c \in Chats :
        \/ \E id \in FieldIds, side \in Sides : MatchWinnerButton(c, id, side)
        \/ \E m \in FieldArgs, t \in {1, 2} : WinnerCommand(c, 2, m, t)

\* a winner button pressed for an open match of an active round
AcceptedWin ==
    \E c \in Chats, id \in FieldIds, side \in Sides :
        /\ c \in DOMAIN active_tournaments
        /\ ~NotOpen(ActiveMatches(c), FindMatch(ActiveMatches(c), id))
        /\ MatchWinnerButton(c, id, side)

\* AcceptedWin is enabled: an open match of an active round has a button,
\* and a counter the press may raise within the bound of the scores
WinEnabled ==
    \E c \in DOMAIN active_tournaments :
        \E n \in DOMAIN ActiveMatches(c), side \in Sides :
            /\ ~Decided(ActiveMatches(c)[n])
            /\ ActiveMatches(c)[n].match_id \in FieldIds
            /\ SideCount(ScoreOf(match_scores, ActiveMatches(c)[n].match_id), side)
                  < MaxScore

\* weak fairness of AcceptedWin, WF_vars(AcceptedWin), written out with its
\* enabling condition as the state predicate WinEnabled: the buttons of a
\* round message stay in the chat and a press is always handled
FairWins == []<>(~WinEnabled) \/ []<><<AcceptedWin>>_vars

SpecLive == InitLive /\ [][NextLive]_vars /\ FairWins

\* the active round has a match, and every round has fewer matches than the
\* round it follows
RoundsShrink ==
    /\ \A c \in DOMAIN active_tournaments :
          Started(c) => Len(ActiveMatches(c)) >= 1
    /\ \A bracket \in Brackets :
          \A r \in DOMAIN bracket.rounds :
              (r + 1 \in DOMAIN bracket.rounds)
                  => Len(bracket.rounds[r + 1]) < Len(bracket.rounds[r])

SamePath(a, b) ==
    /\ a.at = b.at
    /\ a.ms = b.ms
    /\ a.finished = b.finished
    /\ a.awards = b.awards

C36_PathsAgree ==
    \A c \in DOMAIN active_tournaments :
        \A n \in DOMAIN ActiveMatches(c), side \in Sides, u \in Users :
            (~Decided(ActiveMatches(c)[n]) /\ ~NoRights(u))
                => SamePath(set_match_winner(c, ActiveMatches(c)[n].match_id, side),
                            winner_command(c, u, n, TeamNumber(side)))

\* the command path has finished a tournament of two rounds with its three
\* placements rewarded
C36_CommandFinishedTwoRounds ==
    /\ answer = "winner_recorded"
    /\ finished # NoFinish
    /\ Len(finished.tournament.bracket.rounds) = 2
    /\ Len(finished.winners_data) = 3
    /\ Len(awards) >= 3


(***************************************************************************)
(* Brackets played while users who were not in the roster press the join   *)
(* button: the roster at the start is 1..n with n <= MaxRoster, and the    *)
(* users who join once the bracket is built have ids above MaxRoster, so   *)
(* that the roster at the build is read off the participants list.         *)
(***************************************************************************)
Latecomers == (MaxRoster + 1)..(MaxRoster + 2)

NextLatecomers ==
    \E c \in Chats :
        \/ NotStarted(c) /\ StartBracket(c, OwnerId)
        \/ \E u \in Latecomers : ~NotStarted(c) /\ Join(c, u)
        \/ \E id \in PlayIds, side \in Sides : MatchWinnerButton(c, id, side)
        \/ \E m \in PlayArgs, t \in {1, 2} : WinnerCommand(c, 2, m, t)

SpecLatecomers == InitLate /\ [][NextLatecomers]_vars

\* the participants who were in the list when the round-1 bracket was built
RosterAtBuild(tournament) == Range(tournament.participants) \ Latecomers

\* C37: every player of a placed team of a finished tournament was in the
\* roster at the moment the round-1 bracket was built; no player is in two
\* placed teams or twice in one, so the teams placed 1st, 2nd and 3rd are
\* pairwise disjoint.
C37_PlacedFromRoster ==
    finished # NoFinish
    => LET placed == finished.winners_data
       IN  /\ \A i \in DOMAIN placed :
                 /\ Range(placed[i].team) \subseteq RosterAtBuild(finished.tournament)
                 /\ Distinct(placed[i].team)
           /\ \A i, j \in DOMAIN placed :
                 i # j => Range(placed[i].team) \cap Range(placed[j].team) = {}


\* C38: the registration -> round_1 transition happens at most once for a
\* tournament: a start-bracket event that arrives when the bracket is
\* already built (some round is active) changes neither the bracket (no
\* rebuild, no reshuffle, no decided match discarded) nor the scores.
C38_StartOnlyOnce ==
    [][\A c \in Chats, u \in Users :
         StartAgain(c, u) => UNCHANGED <<active_tournaments, match_scores>>]_vars


\* the chat has no tournament, or its tournament is still in registration, or
\* no match of its active round carries this id
NoSuchMatchId(c, id) ==
    \/ c \notin DOMAIN active_tournaments
    \/ NotStarted(c)
    \/ \A n \in DOMAIN ActiveMatches(c) : ActiveMatches(c)[n].match_id # id

\* the same, for the match number of /winner
NoSuchMatchNumber(c, m) ==
    \/ c \notin DOMAIN active_tournaments
    \/ NotStarted(c)
    \/ m \notin DOMAIN ActiveMatches(c)

RejectionAnswers ==
    {"match_finished_or_not_found", "no_rights", "no_active_tournament",
     "bad_match_number"}

\* what a rejected event leaves: the two maps as they were, a refusal as the
\* answer, nothing finished, nobody rewarded
Refused(o) ==
    /\ o.at = active_tournaments
    /\ o.ms = match_scores
    /\ o.answer \in RejectionAnswers
    /\ o.finished = NoFinish
    /\ o.awards = << >>

\* C39: a recordWin event (button or /winner) for a chat with no active
\* tournament, for a tournament still in registration, or for a match id or
\* match number that the active round does not hold is rejected and mutates
\* nothing: in every reachable state the handler of such an event creates or
\* changes no score entry, sets no winner, builds no round, and finishes and
\* rewards nothing.
C39_UnknownTargetRejected ==
    \A c \in Chats :
        /\ \A id \in MatchIdInputs, side \in Sides :
              NoSuchMatchId(c, id) => Refused(set_match_winner(c, id, side))
        /\ \A u \in Users, m \in MatchArgInputs, t \in {1, 2} :
              NoSuchMatchNumber(c, m) => Refused(winner_command(c, u, m, t))

\* a /winner command for a number past the last match has been refused in a
\* started tournament whose match already has a win counted
C39_NumberPastRoundRefused ==
    \E c \in DOMAIN active_tournaments :
        /\ ~NotStarted(c)
        /\ answer = "bad_match_number"
        /\ \E k \in DOMAIN match_scores :
               match_scores[k].team1_wins + match_scores[k].team2_wins > 0

====
